---- MODULE Spec2Model ----
(***************************************************************************)
(* Model of the typable-command interpreter of helix-term                  *)
(* (helix-term/src/commands/typed.rs): the command registry, the arity     *)
(* check, the slot computation and the completion closure of the          *)
(* completion router, the prompt callback that dispatches a line to its    *)
(* handler, the handlers called on their own, and the line-number preview. *)
(*                                                                         *)
(* Rust's Option<T> is a sequence of length at most one: None is <<>>,     *)
(* Some(x) is <<x>>.  A line of input is a sequence of atoms: " " is one   *)
(* whitespace character, "\\" is the escape character, every other atom    *)
(* stands for a run of ordinary characters.                                *)
(***************************************************************************)
EXTENDS Integers, Sequences, FiniteSets, TLC

VARIABLES
    command,    \* signature check: the TypableCommand whose arity is checked
    count,      \* signature check: the positional count handed in
    verdict,    \* signature check: Option of the result of ensure_signature
    map,        \* registry: the HashMap under construction (key -> index in the list)
    cursor,     \* registry: how many (key, command) pairs collect() has consumed
    input,      \* the line handed to a prompt callback
    slot,       \* slot computation: Option of the result of argument_number_of
    event,      \* dispatch: Option of the PromptEvent of the last callback
    invoked,    \* dispatch: the handler calls made by the last callback
    changed,    \* dispatch: the fields of the editor the last callback changed
    prompt,     \* dispatch: "closed" or "open" (a command-mode session in progress)
    editor,     \* dispatch: the editor state the callback and the handlers touch
    completion, \* completion: Option of what the completion closure returned
    session     \* line-number preview: what the session began with and has done

vars == <<command, count, verdict, map, cursor, input, slot, event, invoked, changed, prompt, editor, completion, session>>

None == <<>>
Some(x) == <<x>>

\* ---------------------------------------------------------------- bounds
MaxMin == 3         \* largest declared minimum in the signature check
MaxMax == 4         \* largest declared maximum in the signature check
MaxCount == 6       \* largest positional count in the signature check
MaxLineLen == 8     \* longest line, in atoms, in the slot computation
MaxCompletionLen == 5  \* longest line, in atoms, completion is asked about
MaxRangeStart == 1     \* largest start of a range a completer answers with
MaxSubmitArgs == 2     \* most argument words of a line submitted on its own
MaxOptionArgs == 3     \* most argument words of an option line submitted on its own
MaxToggleArgs == 3     \* most words after the key toggle-option is called with
MaxArgs == 1        \* most argument words of a dispatched line

\* ------------------------------------------------------------- registry
TYPABLE_COMMAND_LIST ==
  <<
    [name |-> "quit", aliases |-> <<"q">>, fun |-> "quit",
     signature |-> [flags |-> <<>>, positionals |-> <<0, <<0>>>>, parse_mode |-> "Parameters",
                    completer |-> [positional_args |-> <<>>, var_args |-> "none"]]],
    [name |-> "echo", aliases |-> <<>>, fun |-> "echo",
     signature |-> [flags |-> <<>>, positionals |-> <<0, <<0>>>>, parse_mode |-> "Parameters",
                    completer |-> [positional_args |-> <<>>, var_args |-> "none"]]],
    [name |-> "quit!", aliases |-> <<"q!">>, fun |-> "force_quit",
     signature |-> [flags |-> <<>>, positionals |-> <<0, <<0>>>>, parse_mode |-> "Parameters",
                    completer |-> [positional_args |-> <<>>, var_args |-> "none"]]],
    [name |-> "open", aliases |-> <<"o", "edit", "e">>, fun |-> "open",
     signature |-> [flags |-> <<>>, positionals |-> <<1, <<>>>>, parse_mode |-> "Parameters",
                    completer |-> [positional_args |-> <<>>, var_args |-> "filename"]]],
    [name |-> "buffer-close", aliases |-> <<"bc", "bclose">>, fun |-> "buffer_close",
     signature |-> [flags |-> <<>>, positionals |-> <<0, <<1>>>>, parse_mode |-> "Parameters",
                    completer |-> [positional_args |-> <<>>, var_args |-> "buffer"]]],
    [name |-> "buffer-close!", aliases |-> <<"bc!", "bclose!">>, fun |-> "force_buffer_close",
     signature |-> [flags |-> <<>>, positionals |-> <<0, <<1>>>>, parse_mode |-> "Parameters",
                    completer |-> [positional_args |-> <<>>, var_args |-> "buffer"]]],
    [name |-> "buffer-close-others", aliases |-> <<"bco", "bcloseother">>, fun |-> "buffer_close_others",
     signature |-> [flags |-> <<>>, positionals |-> <<0, <<0>>>>, parse_mode |-> "Parameters",
                    completer |-> [positional_args |-> <<>>, var_args |-> "none"]]],
    [name |-> "buffer-close-others!", aliases |-> <<"bco!", "bcloseother!">>, fun |-> "force_buffer_close_others",
     signature |-> [flags |-> <<>>, positionals |-> <<0, <<0>>>>, parse_mode |-> "Parameters",
                    completer |-> [positional_args |-> <<>>, var_args |-> "none"]]],
    [name |-> "buffer-close-all", aliases |-> <<"bca", "bcloseall">>, fun |-> "buffer_close_all",
     signature |-> [flags |-> <<>>, positionals |-> <<0, <<0>>>>, parse_mode |-> "Parameters",
                    completer |-> [positional_args |-> <<>>, var_args |-> "none"]]],
    [name |-> "buffer-close-all!", aliases |-> <<"bca!", "bcloseall!">>, fun |-> "force_buffer_close_all",
     signature |-> [flags |-> <<>>, positionals |-> <<0, <<0>>>>, parse_mode |-> "Parameters",
                    completer |-> [positional_args |-> <<>>, var_args |-> "none"]]],
    [name |-> "buffer-next", aliases |-> <<"bn", "bnext">>, fun |-> "buffer_next",
     signature |-> [flags |-> <<>>, positionals |-> <<0, <<0>>>>, parse_mode |-> "Parameters",
                    completer |-> [positional_args |-> <<>>, var_args |-> "none"]]],
    [name |-> "buffer-previous", aliases |-> <<"bp", "bprev">>, fun |-> "buffer_previous",
     signature |-> [flags |-> <<>>, positionals |-> <<0, <<0>>>>, parse_mode |-> "Parameters",
                    completer |-> [positional_args |-> <<>>, var_args |-> "none"]]],
    [name |-> "write", aliases |-> <<"w">>, fun |-> "write",
     signature |-> [flags |-> <<[long |-> "no-format", short |-> <<>>, accepts |-> <<>>]>>, positionals |-> <<0, <<1>>>>, parse_mode |-> "Parameters",
                    completer |-> [positional_args |-> <<"filename">>, var_args |-> "none"]]],
    [name |-> "write!", aliases |-> <<"w!">>, fun |-> "force_write",
     signature |-> [flags |-> <<[long |-> "no-format", short |-> <<>>, accepts |-> <<>>]>>, positionals |-> <<0, <<1>>>>, parse_mode |-> "Parameters",
                    completer |-> [positional_args |-> <<"filename">>, var_args |-> "none"]]],
    [name |-> "write-buffer-close", aliases |-> <<"wbc">>, fun |-> "write_buffer_close",
     signature |-> [flags |-> <<[long |-> "no-format", short |-> <<>>, accepts |-> <<>>]>>, positionals |-> <<0, <<1>>>>, parse_mode |-> "Parameters",
                    completer |-> [positional_args |-> <<"filename">>, var_args |-> "none"]]],
    [name |-> "write-buffer-close!", aliases |-> <<"wbc!">>, fun |-> "force_write_buffer_close",
     signature |-> [flags |-> <<[long |-> "no-format", short |-> <<>>, accepts |-> <<>>]>>, positionals |-> <<0, <<1>>>>, parse_mode |-> "Parameters",
                    completer |-> [positional_args |-> <<"filename">>, var_args |-> "none"]]],
    [name |-> "new", aliases |-> <<"n">>, fun |-> "new_file",
     signature |-> [flags |-> <<>>, positionals |-> <<0, <<0>>>>, parse_mode |-> "Parameters",
                    completer |-> [positional_args |-> <<>>, var_args |-> "none"]]],
    [name |-> "format", aliases |-> <<"fmt">>, fun |-> "format",
     signature |-> [flags |-> <<>>, positionals |-> <<0, <<0>>>>, parse_mode |-> "Parameters",
                    completer |-> [positional_args |-> <<>>, var_args |-> "none"]]],
    [name |-> "indent-style", aliases |-> <<>>, fun |-> "set_indent_style",
     signature |-> [flags |-> <<>>, positionals |-> <<0, <<1>>>>, parse_mode |-> "Parameters",
                    completer |-> [positional_args |-> <<>>, var_args |-> "none"]]],
    [name |-> "line-ending", aliases |-> <<>>, fun |-> "set_line_ending",
     signature |-> [flags |-> <<>>, positionals |-> <<1, <<1>>>>, parse_mode |-> "Parameters",
                    completer |-> [positional_args |-> <<>>, var_args |-> "none"]]],
    [name |-> "earlier", aliases |-> <<"ear">>, fun |-> "earlier",
     signature |-> [flags |-> <<>>, positionals |-> <<1, <<1>>>>, parse_mode |-> "Parameters",
                    completer |-> [positional_args |-> <<>>, var_args |-> "none"]]],
    [name |-> "later", aliases |-> <<"lat">>, fun |-> "later",
     signature |-> [flags |-> <<>>, positionals |-> <<1, <<1>>>>, parse_mode |-> "Parameters",
                    completer |-> [positional_args |-> <<>>, var_args |-> "none"]]],
    [name |-> "write-quit", aliases |-> <<"wq", "x">>, fun |-> "write_quit",
     signature |-> [flags |-> <<[long |-> "no-format", short |-> <<>>, accepts |-> <<>>]>>, positionals |-> <<0, <<1>>>>, parse_mode |-> "Parameters",
                    completer |-> [positional_args |-> <<"filename">>, var_args |-> "none"]]],
    [name |-> "write-quit!", aliases |-> <<"wq!", "x!">>, fun |-> "force_write_quit",
     signature |-> [flags |-> <<[long |-> "no-format", short |-> <<>>, accepts |-> <<>>]>>, positionals |-> <<0, <<1>>>>, parse_mode |-> "Parameters",
                    completer |-> [positional_args |-> <<"filename">>, var_args |-> "none"]]],
    [name |-> "write-all", aliases |-> <<"wa">>, fun |-> "write_all",
     signature |-> [flags |-> <<[long |-> "no-format", short |-> <<>>, accepts |-> <<>>]>>, positionals |-> <<0, <<0>>>>, parse_mode |-> "Parameters",
                    completer |-> [positional_args |-> <<>>, var_args |-> "none"]]],
    [name |-> "write-all!", aliases |-> <<"wa!">>, fun |-> "force_write_all",
     signature |-> [flags |-> <<[long |-> "no-format", short |-> <<>>, accepts |-> <<>>]>>, positionals |-> <<0, <<0>>>>, parse_mode |-> "Parameters",
                    completer |-> [positional_args |-> <<>>, var_args |-> "none"]]],
    [name |-> "write-quit-all", aliases |-> <<"wqa", "xa">>, fun |-> "write_all_quit",
     signature |-> [flags |-> <<[long |-> "no-format", short |-> <<>>, accepts |-> <<>>]>>, positionals |-> <<0, <<0>>>>, parse_mode |-> "Parameters",
                    completer |-> [positional_args |-> <<>>, var_args |-> "none"]]],
    [name |-> "write-quit-all!", aliases |-> <<"wqa!", "xa!">>, fun |-> "force_write_all_quit",
     signature |-> [flags |-> <<[long |-> "no-format", short |-> <<>>, accepts |-> <<>>]>>, positionals |-> <<0, <<0>>>>, parse_mode |-> "Parameters",
                    completer |-> [positional_args |-> <<>>, var_args |-> "none"]]],
    [name |-> "quit-all", aliases |-> <<"qa">>, fun |-> "quit_all",
     signature |-> [flags |-> <<>>, positionals |-> <<0, <<0>>>>, parse_mode |-> "Parameters",
                    completer |-> [positional_args |-> <<>>, var_args |-> "none"]]],
    [name |-> "quit-all!", aliases |-> <<"qa!">>, fun |-> "force_quit_all",
     signature |-> [flags |-> <<>>, positionals |-> <<0, <<0>>>>, parse_mode |-> "Parameters",
                    completer |-> [positional_args |-> <<>>, var_args |-> "none"]]],
    [name |-> "cquit", aliases |-> <<"cq">>, fun |-> "cquit",
     signature |-> [flags |-> <<>>, positionals |-> <<0, <<1>>>>, parse_mode |-> "Parameters",
                    completer |-> [positional_args |-> <<>>, var_args |-> "none"]]],
    [name |-> "cquit!", aliases |-> <<"cq!">>, fun |-> "force_cquit",
     signature |-> [flags |-> <<>>, positionals |-> <<0, <<1>>>>, parse_mode |-> "Parameters",
                    completer |-> [positional_args |-> <<>>, var_args |-> "none"]]],
    [name |-> "theme", aliases |-> <<>>, fun |-> "theme",
     signature |-> [flags |-> <<>>, positionals |-> <<1, <<1>>>>, parse_mode |-> "Parameters",
                    completer |-> [positional_args |-> <<"theme">>, var_args |-> "none"]]],
    [name |-> "yank-join", aliases |-> <<>>, fun |-> "yank_joined",
     signature |-> [flags |-> <<>>, positionals |-> <<0, <<1>>>>, parse_mode |-> "Parameters",
                    completer |-> [positional_args |-> <<>>, var_args |-> "none"]]],
    [name |-> "clipboard-yank", aliases |-> <<>>, fun |-> "yank_main_selection_to_clipboard",
     signature |-> [flags |-> <<>>, positionals |-> <<0, <<0>>>>, parse_mode |-> "Parameters",
                    completer |-> [positional_args |-> <<>>, var_args |-> "none"]]],
    [name |-> "clipboard-yank-join", aliases |-> <<>>, fun |-> "yank_joined_to_clipboard",
     signature |-> [flags |-> <<>>, positionals |-> <<0, <<0>>>>, parse_mode |-> "Parameters",
                    completer |-> [positional_args |-> <<>>, var_args |-> "none"]]],
    [name |-> "primary-clipboard-yank", aliases |-> <<>>, fun |-> "yank_main_selection_to_primary_clipboard",
     signature |-> [flags |-> <<>>, positionals |-> <<0, <<0>>>>, parse_mode |-> "Parameters",
                    completer |-> [positional_args |-> <<>>, var_args |-> "none"]]],
    [name |-> "primary-clipboard-yank-join", aliases |-> <<>>, fun |-> "yank_joined_to_primary_clipboard",
     signature |-> [flags |-> <<>>, positionals |-> <<0, <<1>>>>, parse_mode |-> "Parameters",
                    completer |-> [positional_args |-> <<>>, var_args |-> "none"]]],
    [name |-> "clipboard-paste-after", aliases |-> <<>>, fun |-> "paste_clipboard_after",
     signature |-> [flags |-> <<>>, positionals |-> <<0, <<0>>>>, parse_mode |-> "Parameters",
                    completer |-> [positional_args |-> <<>>, var_args |-> "none"]]],
    [name |-> "clipboard-paste-before", aliases |-> <<>>, fun |-> "paste_clipboard_before",
     signature |-> [flags |-> <<>>, positionals |-> <<0, <<0>>>>, parse_mode |-> "Parameters",
                    completer |-> [positional_args |-> <<>>, var_args |-> "none"]]],
    [name |-> "clipboard-paste-replace", aliases |-> <<>>, fun |-> "replace_selections_with_clipboard",
     signature |-> [flags |-> <<>>, positionals |-> <<0, <<0>>>>, parse_mode |-> "Parameters",
                    completer |-> [positional_args |-> <<>>, var_args |-> "none"]]],
    [name |-> "primary-clipboard-paste-after", aliases |-> <<>>, fun |-> "paste_primary_clipboard_after",
     signature |-> [flags |-> <<>>, positionals |-> <<0, <<0>>>>, parse_mode |-> "Parameters",
                    completer |-> [positional_args |-> <<>>, var_args |-> "none"]]],
    [name |-> "primary-clipboard-paste-before", aliases |-> <<>>, fun |-> "paste_primary_clipboard_before",
     signature |-> [flags |-> <<>>, positionals |-> <<0, <<0>>>>, parse_mode |-> "Parameters",
                    completer |-> [positional_args |-> <<>>, var_args |-> "none"]]],
    [name |-> "primary-clipboard-paste-replace", aliases |-> <<>>, fun |-> "replace_selections_with_primary_clipboard",
     signature |-> [flags |-> <<>>, positionals |-> <<0, <<0>>>>, parse_mode |-> "Parameters",
                    completer |-> [positional_args |-> <<>>, var_args |-> "none"]]],
    [name |-> "show-clipboard-provider", aliases |-> <<>>, fun |-> "show_clipboard_provider",
     signature |-> [flags |-> <<>>, positionals |-> <<0, <<0>>>>, parse_mode |-> "Parameters",
                    completer |-> [positional_args |-> <<>>, var_args |-> "none"]]],
    [name |-> "change-current-directory", aliases |-> <<"cd">>, fun |-> "change_current_directory",
     signature |-> [flags |-> <<>>, positionals |-> <<1, <<1>>>>, parse_mode |-> "Parameters",
                    completer |-> [positional_args |-> <<"directory">>, var_args |-> "none"]]],
    [name |-> "show-directory", aliases |-> <<"pwd">>, fun |-> "show_current_directory",
     signature |-> [flags |-> <<>>, positionals |-> <<0, <<0>>>>, parse_mode |-> "Parameters",
                    completer |-> [positional_args |-> <<>>, var_args |-> "none"]]],
    [name |-> "encoding", aliases |-> <<>>, fun |-> "set_encoding",
     signature |-> [flags |-> <<>>, positionals |-> <<1, <<1>>>>, parse_mode |-> "Parameters",
                    completer |-> [positional_args |-> <<>>, var_args |-> "none"]]],
    [name |-> "character-info", aliases |-> <<"char">>, fun |-> "get_character_info",
     signature |-> [flags |-> <<>>, positionals |-> <<0, <<0>>>>, parse_mode |-> "Parameters",
                    completer |-> [positional_args |-> <<>>, var_args |-> "none"]]],
    [name |-> "reload", aliases |-> <<"rl">>, fun |-> "reload",
     signature |-> [flags |-> <<>>, positionals |-> <<0, <<0>>>>, parse_mode |-> "Parameters",
                    completer |-> [positional_args |-> <<>>, var_args |-> "none"]]],
    [name |-> "reload-all", aliases |-> <<"rla">>, fun |-> "reload_all",
     signature |-> [flags |-> <<>>, positionals |-> <<0, <<0>>>>, parse_mode |-> "Parameters",
                    completer |-> [positional_args |-> <<>>, var_args |-> "none"]]],
    [name |-> "update", aliases |-> <<"u">>, fun |-> "update",
     signature |-> [flags |-> <<>>, positionals |-> <<0, <<0>>>>, parse_mode |-> "Parameters",
                    completer |-> [positional_args |-> <<>>, var_args |-> "none"]]],
    [name |-> "lsp-workspace-command", aliases |-> <<>>, fun |-> "lsp_workspace_command",
     signature |-> [flags |-> <<>>, positionals |-> <<0, <<0>>>>, parse_mode |-> "Parameters",
                    completer |-> [positional_args |-> <<"lsp_workspace_command">>, var_args |-> "none"]]],
    [name |-> "lsp-restart", aliases |-> <<>>, fun |-> "lsp_restart",
     signature |-> [flags |-> <<>>, positionals |-> <<0, <<0>>>>, parse_mode |-> "Parameters",
                    completer |-> [positional_args |-> <<>>, var_args |-> "none"]]],
    [name |-> "lsp-stop", aliases |-> <<>>, fun |-> "lsp_stop",
     signature |-> [flags |-> <<>>, positionals |-> <<0, <<0>>>>, parse_mode |-> "Parameters",
                    completer |-> [positional_args |-> <<>>, var_args |-> "none"]]],
    [name |-> "tree-sitter-scopes", aliases |-> <<>>, fun |-> "tree_sitter_scopes",
     signature |-> [flags |-> <<>>, positionals |-> <<0, <<0>>>>, parse_mode |-> "Parameters",
                    completer |-> [positional_args |-> <<>>, var_args |-> "none"]]],
    [name |-> "tree-sitter-highlight-name", aliases |-> <<>>, fun |-> "tree_sitter_highlight_name",
     signature |-> [flags |-> <<>>, positionals |-> <<0, <<0>>>>, parse_mode |-> "Parameters",
                    completer |-> [positional_args |-> <<>>, var_args |-> "none"]]],
    [name |-> "debug-start", aliases |-> <<"dbg">>, fun |-> "debug_start",
     signature |-> [flags |-> <<>>, positionals |-> <<0, <<>>>>, parse_mode |-> "Parameters",
                    completer |-> [positional_args |-> <<>>, var_args |-> "none"]]],
    [name |-> "debug-remote", aliases |-> <<"dbg-tcp">>, fun |-> "debug_remote",
     signature |-> [flags |-> <<>>, positionals |-> <<0, <<>>>>, parse_mode |-> "Parameters",
                    completer |-> [positional_args |-> <<>>, var_args |-> "none"]]],
    [name |-> "debug-eval", aliases |-> <<>>, fun |-> "debug_eval",
     signature |-> [flags |-> <<>>, positionals |-> <<0, <<0>>>>, parse_mode |-> "Parameters",
                    completer |-> [positional_args |-> <<>>, var_args |-> "none"]]],
    [name |-> "vsplit", aliases |-> <<"vs">>, fun |-> "vsplit",
     signature |-> [flags |-> <<>>, positionals |-> <<0, <<1>>>>, parse_mode |-> "Parameters",
                    completer |-> [positional_args |-> <<>>, var_args |-> "filename"]]],
    [name |-> "vsplit-new", aliases |-> <<"vnew">>, fun |-> "vsplit_new",
     signature |-> [flags |-> <<>>, positionals |-> <<0, <<0>>>>, parse_mode |-> "Parameters",
                    completer |-> [positional_args |-> <<>>, var_args |-> "none"]]],
    [name |-> "hsplit", aliases |-> <<"hs", "sp">>, fun |-> "hsplit",
     signature |-> [flags |-> <<>>, positionals |-> <<0, <<1>>>>, parse_mode |-> "Parameters",
                    completer |-> [positional_args |-> <<>>, var_args |-> "filename"]]],
    [name |-> "hsplit-new", aliases |-> <<"hnew">>, fun |-> "hsplit_new",
     signature |-> [flags |-> <<>>, positionals |-> <<0, <<0>>>>, parse_mode |-> "Parameters",
                    completer |-> [positional_args |-> <<>>, var_args |-> "none"]]],
    [name |-> "tutor", aliases |-> <<>>, fun |-> "tutor",
     signature |-> [flags |-> <<>>, positionals |-> <<0, <<0>>>>, parse_mode |-> "Parameters",
                    completer |-> [positional_args |-> <<>>, var_args |-> "none"]]],
    [name |-> "goto", aliases |-> <<"g">>, fun |-> "goto_line_number",
     signature |-> [flags |-> <<>>, positionals |-> <<1, <<1>>>>, parse_mode |-> "Parameters",
                    completer |-> [positional_args |-> <<>>, var_args |-> "none"]]],
    [name |-> "set-language", aliases |-> <<"lang">>, fun |-> "language",
     signature |-> [flags |-> <<>>, positionals |-> <<1, <<1>>>>, parse_mode |-> "Parameters",
                    completer |-> [positional_args |-> <<"language">>, var_args |-> "none"]]],
    [name |-> "set-option", aliases |-> <<"set">>, fun |-> "set_option",
     signature |-> [flags |-> <<>>, positionals |-> <<2, <<2>>>>, parse_mode |-> "Parameters",
                    completer |-> [positional_args |-> <<"setting">>, var_args |-> "none"]]],
    [name |-> "toggle-option", aliases |-> <<"toggle">>, fun |-> "toggle_option",
     signature |-> [flags |-> <<>>, positionals |-> <<1, <<>>>>, parse_mode |-> "Parameters",
                    completer |-> [positional_args |-> <<"setting">>, var_args |-> "none"]]],
    [name |-> "get-option", aliases |-> <<"get">>, fun |-> "get_option",
     signature |-> [flags |-> <<>>, positionals |-> <<1, <<1>>>>, parse_mode |-> "Parameters",
                    completer |-> [positional_args |-> <<"setting">>, var_args |-> "none"]]],
    [name |-> "sort", aliases |-> <<>>, fun |-> "sort",
     signature |-> [flags |-> <<[long |-> "reverse", short |-> <<"r">>, accepts |-> <<>>]>>, positionals |-> <<0, <<0>>>>, parse_mode |-> "Parameters",
                    completer |-> [positional_args |-> <<>>, var_args |-> "none"]]],
    [name |-> "reflow", aliases |-> <<>>, fun |-> "reflow",
     signature |-> [flags |-> <<>>, positionals |-> <<0, <<0>>>>, parse_mode |-> "Parameters",
                    completer |-> [positional_args |-> <<>>, var_args |-> "none"]]],
    [name |-> "tree-sitter-subtree", aliases |-> <<"ts-subtree">>, fun |-> "tree_sitter_subtree",
     signature |-> [flags |-> <<>>, positionals |-> <<0, <<0>>>>, parse_mode |-> "Parameters",
                    completer |-> [positional_args |-> <<>>, var_args |-> "none"]]],
    [name |-> "config-reload", aliases |-> <<>>, fun |-> "refresh_config",
     signature |-> [flags |-> <<>>, positionals |-> <<0, <<0>>>>, parse_mode |-> "Parameters",
                    completer |-> [positional_args |-> <<>>, var_args |-> "none"]]],
    [name |-> "config-open", aliases |-> <<>>, fun |-> "open_config",
     signature |-> [flags |-> <<>>, positionals |-> <<0, <<0>>>>, parse_mode |-> "Parameters",
                    completer |-> [positional_args |-> <<>>, var_args |-> "none"]]],
    [name |-> "config-open-workspace", aliases |-> <<>>, fun |-> "open_workspace_config",
     signature |-> [flags |-> <<>>, positionals |-> <<0, <<0>>>>, parse_mode |-> "Parameters",
                    completer |-> [positional_args |-> <<>>, var_args |-> "none"]]],
    [name |-> "log-open", aliases |-> <<>>, fun |-> "open_log",
     signature |-> [flags |-> <<>>, positionals |-> <<0, <<0>>>>, parse_mode |-> "Parameters",
                    completer |-> [positional_args |-> <<>>, var_args |-> "none"]]],
    [name |-> "insert-output", aliases |-> <<>>, fun |-> "insert_output",
     signature |-> [flags |-> <<>>, positionals |-> <<1, <<1>>>>, parse_mode |-> "Literal",
                    completer |-> [positional_args |-> <<>>, var_args |-> "none"]]],
    [name |-> "append-output", aliases |-> <<>>, fun |-> "append_output",
     signature |-> [flags |-> <<>>, positionals |-> <<1, <<1>>>>, parse_mode |-> "Literal",
                    completer |-> [positional_args |-> <<>>, var_args |-> "none"]]],
    [name |-> "pipe", aliases |-> <<>>, fun |-> "pipe",
     signature |-> [flags |-> <<>>, positionals |-> <<1, <<1>>>>, parse_mode |-> "Literal",
                    completer |-> [positional_args |-> <<>>, var_args |-> "none"]]],
    [name |-> "pipe-to", aliases |-> <<>>, fun |-> "pipe_to",
     signature |-> [flags |-> <<>>, positionals |-> <<1, <<1>>>>, parse_mode |-> "Literal",
                    completer |-> [positional_args |-> <<>>, var_args |-> "none"]]],
    [name |-> "run-shell-command", aliases |-> <<"sh">>, fun |-> "run_shell_command",
     signature |-> [flags |-> <<>>, positionals |-> <<1, <<1>>>>, parse_mode |-> "Literal",
                    completer |-> [positional_args |-> <<>>, var_args |-> "filename"]]],
    [name |-> "reset-diff-change", aliases |-> <<"diffget", "diffg">>, fun |-> "reset_diff_change",
     signature |-> [flags |-> <<>>, positionals |-> <<0, <<0>>>>, parse_mode |-> "Parameters",
                    completer |-> [positional_args |-> <<>>, var_args |-> "none"]]],
    [name |-> "clear-register", aliases |-> <<>>, fun |-> "clear_register",
     signature |-> [flags |-> <<[long |-> "all", short |-> <<"a">>, accepts |-> <<>>]>>, positionals |-> <<0, <<1>>>>, parse_mode |-> "Parameters",
                    completer |-> [positional_args |-> <<>>, var_args |-> "register"]]],
    [name |-> "redraw", aliases |-> <<>>, fun |-> "redraw",
     signature |-> [flags |-> <<>>, positionals |-> <<0, <<0>>>>, parse_mode |-> "Parameters",
                    completer |-> [positional_args |-> <<>>, var_args |-> "none"]]],
    [name |-> "move", aliases |-> <<"mv">>, fun |-> "move_buffer",
     signature |-> [flags |-> <<>>, positionals |-> <<1, <<1>>>>, parse_mode |-> "Parameters",
                    completer |-> [positional_args |-> <<"filename">>, var_args |-> "none"]]],
    [name |-> "yank-diagnostic", aliases |-> <<>>, fun |-> "yank_diagnostic",
     signature |-> [flags |-> <<>>, positionals |-> <<0, <<1>>>>, parse_mode |-> "Parameters",
                    completer |-> [positional_args |-> <<>>, var_args |-> "register"]]],
    [name |-> "read", aliases |-> <<"r">>, fun |-> "read",
     signature |-> [flags |-> <<>>, positionals |-> <<1, <<1>>>>, parse_mode |-> "Parameters",
                    completer |-> [positional_args |-> <<"filename">>, var_args |-> "none"]]]
  >>

\* The (key, command) pairs one command contributes: its name, then its aliases.
\* The command is referred to by its index in TYPABLE_COMMAND_LIST.
command_pairs_names_only(i) ==
    << <<TYPABLE_COMMAND_LIST[i].name, i>> >>

command_pairs(i) ==
    << <<TYPABLE_COMMAND_LIST[i].name, i>> >>
        \o [j \in 1..Len(TYPABLE_COMMAND_LIST[i].aliases) |->
                <<TYPABLE_COMMAND_LIST[i].aliases[j], i>>]

\* flat_map over the list, in list order.
RECURSIVE flat_map(_)
flat_map(n) ==
    IF n = 0 THEN <<>> ELSE flat_map(n - 1) \o command_pairs(n)

MapPairs == flat_map(Len(TYPABLE_COMMAND_LIST))

\* HashMap::insert: a later pair with the same key replaces the earlier one.
insert(m, pair) == (pair[1] :> pair[2]) @@ m

EmptyMap == [k \in {} |-> 0]

\* collect(): the pairs lo..hi go into the map in order, so of two pairs with the
\* same key the later one stays.
RECURSIVE collect(_, _, _)
collect(pairs, lo, hi) ==
    IF lo > hi THEN EmptyMap
    ELSE IF lo = hi THEN insert(EmptyMap, pairs[lo])
    ELSE LET mid == (lo + hi) \div 2
         IN  collect(pairs, mid + 1, hi) @@ collect(pairs, lo, mid)

TYPABLE_COMMAND_MAP == collect(MapPairs, 1, Len(MapPairs))

\* ------------------------------------------------------ signature check
Ok == "Ok"

ensure(cond, err) == IF cond THEN Ok ELSE err

\* The result is Ok or the message of the arm that failed.
ensure_signature_exclusive(cmd, n) ==
    LET min == cmd.signature.positionals[1]
        max == cmd.signature.positionals[2]
    IN  IF min = 0 /\ max = Some(0)
        THEN ensure(n = 0, "doesn't take any arguments")
        ELSE IF max # None /\ min = max[1]
        THEN ensure(min <= n /\ n < max[1], "needs min argument")
        ELSE IF max # None /\ min = max[1]
        THEN ensure(min <= n /\ n <= max[1], "needs at least min arguments and at most max")
        ELSE ensure(min <= n, "needs at least min argument")

ensure_signature_strict(cmd, n) ==
    LET min == cmd.signature.positionals[1]
        max == cmd.signature.positionals[2]
    IN  IF min = 0 /\ max = Some(0)
        THEN ensure(n = 0, "doesn't take any arguments")
        ELSE IF max # None /\ min = max[1]
        THEN ensure(min <= n /\ n <= max[1], "needs min argument")
        ELSE IF max # None /\ min = max[1]
        THEN ensure(min <= n /\ n <= max[1], "needs at least min arguments and at most max")
        ELSE ensure(min < n, "needs at least min argument")

ensure_signature(cmd, n) ==
    LET min == cmd.signature.positionals[1]
        max == cmd.signature.positionals[2]
    IN  IF min = 0 /\ max = Some(0)
        THEN ensure(n = 0, "doesn't take any arguments")
        ELSE IF max # None /\ min = max[1]
        THEN ensure(min <= n /\ n <= max[1], "needs min argument")
        \* the third arm repeats the guard of the second, as the source does
        ELSE IF max # None /\ min = max[1]
        THEN ensure(min <= n /\ n <= max[1], "needs at least min arguments and at most max")
        ELSE ensure(min <= n, "needs at least min argument")

\* ------------------------------------------------------------ tokenizer
Space == " "
Escape == "\\"
Dash == "-"

\* The words of a text: maximal runs of atoms between unescaped whitespace,
\* with each escape character dropped and the atom after it taken literally.
RECURSIVE words_from(_, _, _, _)
words_from(s, i, cur, open) ==
    IF i > Len(s) THEN (IF open THEN <<cur>> ELSE <<>>)
    ELSE IF s[i] = Escape /\ i < Len(s)
    THEN words_from(s, i + 2, Append(cur, s[i + 1]), TRUE)
    ELSE IF s[i] = Space
    THEN (IF open THEN <<cur>> ELSE <<>>) \o words_from(s, i + 1, <<>>, FALSE)
    ELSE words_from(s, i + 1, Append(cur, s[i]), TRUE)

\* Index of the first atom at or after i that is not whitespace (Len(s) + 1 if none).
RECURSIVE skip_whitespace(_, _)
skip_whitespace(s, i) ==
    IF i > Len(s) \/ s[i] # Space THEN i ELSE skip_whitespace(s, i + 1)

\* Index of the first unescaped whitespace at or after i (Len(s) + 1 if none).
RECURSIVE word_end(_, _)
word_end(s, i) ==
    IF i > Len(s) THEN i
    ELSE IF s[i] = Escape /\ i < Len(s) THEN word_end(s, i + 2)
    ELSE IF s[i] = Space THEN i
    ELSE word_end(s, i + 1)

RECURSIVE ends_with_unescaped_whitespace(_, _)
ends_with_unescaped_whitespace(s, i) ==
    IF i > Len(s) THEN FALSE
    ELSE IF s[i] = Escape /\ i < Len(s) THEN ends_with_unescaped_whitespace(s, i + 2)
    ELSE IF i = Len(s) THEN s[i] = Space
    ELSE ends_with_unescaped_whitespace(s, i + 1)

\* Shellwords::from(input) and its three accessors.
Shellwords(line) == [input |-> line]

shellwords_command(sw) ==
    LET ws == words_from(sw.input, 1, <<>>, FALSE)
    IN  IF ws = <<>> THEN <<>> ELSE ws[1]

shellwords_args(sw) ==
    LET from == word_end(sw.input, skip_whitespace(sw.input, 1))
    IN  SubSeq(sw.input, skip_whitespace(sw.input, from), Len(sw.input))

shellwords_ends_with_whitespace(sw) == ends_with_unescaped_whitespace(sw.input, 1)

\* ------------------------------------------------------ argument parser
\* Args: the positional words in input order and the long names of the flags seen.
Args(positionals, flags) == [positionals |-> positionals, flags |-> flags]

ArgsEmpty == Args(<<>>, {})

\* Args::from(text): every word is a positional.
ArgsFrom(text) == Args(words_from(text, 1, <<>>, FALSE), {})

args_len(args) == Len(args.positionals)
args_is_empty(args) == args.positionals = <<>>
args_first(args) == IF args.positionals = <<>> THEN None ELSE Some(args.positionals[1])
args_has_flag(args, long) == long \in args.flags

is_flag_shaped(word) == Len(word) >= 2 /\ word[1] = Dash

\* The declared flags a flag-shaped word names: --long or -short.
matching_flags(word, flags) ==
    {k \in 1..Len(flags) :
        \/ word = <<Dash, Dash, flags[k].long>>
        \/ flags[k].short # None /\ word = <<Dash, flags[k].short[1]>>}

\* Parameters mode, word by word.  The result is [ok, args] or [ok, err].
RECURSIVE parse_parameters(_, _, _, _)
parse_parameters(ws, i, flags, acc) ==
    IF i > Len(ws) THEN [ok |-> TRUE, args |-> acc]
    ELSE IF is_flag_shaped(ws[i])
    THEN LET ks == matching_flags(ws[i], flags)
         IN  IF ks = {} THEN [ok |-> FALSE, err |-> "unknown flag"]
             ELSE LET k == CHOOSE k \in ks : \A o \in ks : k <= o
                  IN  IF flags[k].accepts = None
                      THEN parse_parameters(ws, i + 1, flags,
                                            Args(acc.positionals, acc.flags \cup {flags[k].long}))
                      ELSE IF i = Len(ws)
                      THEN [ok |-> FALSE, err |-> "flag is missing its value"]
                      ELSE parse_parameters(ws, i + 2, flags,
                                            Args(acc.positionals, acc.flags \cup {flags[k].long}))
    ELSE parse_parameters(ws, i + 1, flags,
                          Args(Append(acc.positionals, ws[i]), acc.flags))

\* Args::from_signature(text, parse_mode, flags).  In Literal mode the text is
\* taken verbatim as one positional and no flag is recognised.
ArgsFromSignature(text, parse_mode, flags) ==
    IF parse_mode = "Literal"
    THEN [ok |-> TRUE,
          args |-> IF text = <<>> THEN ArgsEmpty ELSE Args(<<text>>, {})]
    ELSE parse_parameters(words_from(text, 1, <<>>, FALSE), 1, flags, ArgsEmpty)

\* ----------------------------------------------------- slot computation
saturating_sub(a, b) == IF a >= b THEN a - b ELSE 0

usize_from(b) == IF b THEN 1 ELSE 0

argument_number_of_len(sw) ==
    args_len(ArgsFrom(shellwords_args(sw)))

argument_number_of_last_word(sw) ==
    saturating_sub(args_len(ArgsFrom(shellwords_args(sw))), 1)

argument_number_of(sw) ==
    saturating_sub(args_len(ArgsFrom(shellwords_args(sw))),
                   1 - usize_from(shellwords_ends_with_whitespace(sw)))

\* --------------------------------------------------------- editor state
NumLines == 3       \* lines of the current document
MaxJumps == 1       \* entries the jumplist keeps (the oldest is dropped)

Update == "Update"
Validate == "Validate"
Abort == "Abort"
PromptEvent == {Update, Validate, Abort}

set_error(ed, msg) ==
    [ed EXCEPT !.status = Some([severity |-> "error", message |-> msg])]

set_status(ed, msg) ==
    [ed EXCEPT !.status = Some([severity |-> "info", message |-> msg])]

\* str::parse::<usize>() of a word: Some(n) for a decimal numeral, None otherwise.
Numerals == ("0" :> 0) @@ ("2" :> 2) @@ ("9" :> 9)

parse_usize(word) ==
    IF Len(word) = 1 /\ word[1] \in DOMAIN Numerals THEN Some(Numerals[word[1]]) ELSE None

\* Themes the loader finds, and whether each is a 16-color theme.
Themes == ("dark" :> FALSE) @@ ("base16" :> TRUE)

theme_load(word) ==
    IF Len(word) = 1 /\ word[1] \in DOMAIN Themes THEN Some(word[1]) ELSE None

\* A handler returns the editor it leaves and Ok or its error message.
Return(ed, result) == [editor |-> ed, result |-> result]

\* ------------------------------------------------------------- handlers
abort_goto_line_number_preview(ed) ==
    IF ed.last_selection # None
    THEN [ed EXCEPT !.selection = ed.last_selection[1], !.last_selection = None]
    ELSE ed

\* NonZeroUsize::new(0) is None and moves nothing; a line past the end is clamped.
goto_line_without_jumplist(ed, line) ==
    IF line = 0 THEN ed
    ELSE [ed EXCEPT !.selection = IF line > NumLines THEN NumLines ELSE line]

update_goto_line_number_preview(ed, args) ==
    LET saved == IF ed.last_selection = None
                 THEN [ed EXCEPT !.last_selection = Some(ed.selection)]
                 ELSE ed
        line == parse_usize(args.positionals[1])
    IN  IF line = None
        THEN Return(saved, "invalid digit found in string")
        ELSE Return(goto_line_without_jumplist(saved, line[1]), Ok)

jumps_push(jumps, sel) ==
    IF Len(jumps) < MaxJumps THEN Append(jumps, sel)
    ELSE Append(SubSeq(jumps, 2, Len(jumps)), sel)

goto_line_number(ed, args, ev) ==
    IF ev = Abort THEN Return(abort_goto_line_number_preview(ed), Ok)
    ELSE IF ev = Validate
    THEN IF args_is_empty(args) THEN Return(ed, "Line number required")
         ELSE LET r == update_goto_line_number_preview(ed, args)
              IN  IF r.result # Ok THEN r
                  ELSE Return([r.editor EXCEPT
                                  !.last_selection = None,
                                  !.jumps = jumps_push(@, r.editor.last_selection[1])],
                              Ok)
    ELSE IF args_is_empty(args) THEN Return(abort_goto_line_number_preview(ed), Ok)
    ELSE update_goto_line_number_preview(ed, args)

theme_applied_on_update(ed, args, ev) ==
    IF ev = Abort THEN Return([ed EXCEPT !.theme_preview = None], Ok)
    ELSE IF ev = Update
    THEN IF args_is_empty(args) THEN Return([ed EXCEPT !.theme_preview = None], Ok)
         ELSE LET t == theme_load(args.positionals[1])
              IN  IF t = None THEN Return(ed, Ok)
                  ELSE IF ~(ed.true_color \/ Themes[t[1]])
                  THEN Return(ed, "Unsupported theme: theme requires true color support")
                  ELSE Return([ed EXCEPT !.theme = t[1], !.theme_preview = None], Ok)
    ELSE IF args_first(args) # None
    THEN LET t == theme_load(args.positionals[1])
         IN  IF t = None THEN Return(ed, "Could not load theme")
             ELSE IF ~(ed.true_color \/ Themes[t[1]])
             THEN Return(ed, "Unsupported theme: theme requires true color support")
             \* set_theme installs the theme and drops any preview
             ELSE Return([ed EXCEPT !.theme = t[1], !.theme_preview = None], Ok)
    ELSE Return(set_status(ed, ed.theme), Ok)

theme(ed, args, ev) ==
    IF ev = Abort THEN Return([ed EXCEPT !.theme_preview = None], Ok)
    ELSE IF ev = Update
    THEN IF args_is_empty(args) THEN Return([ed EXCEPT !.theme_preview = None], Ok)
         ELSE LET t == theme_load(args.positionals[1])
              IN  IF t = None THEN Return(ed, Ok)
                  ELSE IF ~(ed.true_color \/ Themes[t[1]])
                  THEN Return(ed, "Unsupported theme: theme requires true color support")
                  ELSE Return([ed EXCEPT !.theme_preview = t], Ok)
    ELSE IF args_first(args) # None
    THEN LET t == theme_load(args.positionals[1])
         IN  IF t = None THEN Return(ed, "Could not load theme")
             ELSE IF ~(ed.true_color \/ Themes[t[1]])
             THEN Return(ed, "Unsupported theme: theme requires true color support")
             \* set_theme installs the theme and drops any preview
             ELSE Return([ed EXCEPT !.theme = t[1], !.theme_preview = None], Ok)
    ELSE Return(set_status(ed, ed.theme), Ok)

\* A handler that indexes a positional that is not there panics: it returns
\* neither Ok nor an error.
Panic == "panic"

\* The positionals a handler reads on Validate without first looking whether they
\* are there (args[0], args.first().unwrap()).  debug_eval reads args[0] only with
\* a debugger attached, which the editor of this model never has.
positionals_read(fun, args) ==
    IF fun \in {"echo", "yank_joined", "yank_joined_to_clipboard",
                "yank_joined_to_primary_clipboard", "earlier", "later",
                "insert_output", "run_shell_command"}
    THEN 1
    ELSE IF fun = "clear_register" /\ ~args_has_flag(args, "all") THEN 1
    ELSE 0

other_handler_unguarded(fun, ed, args, ev, fails) ==
    IF args_len(args) < positionals_read(fun, args) THEN Return(ed, Panic)
    ELSE IF fails THEN Return(ed, "handler error")
    ELSE Return([ed EXCEPT !.effect = Some(fun)], Ok)

\* Every other handler returns Ok at once unless the event is Validate.  What it
\* does on Validate belongs to the editor: it panics on a positional that is not
\* there, fails with its own message, or commits its effect, recorded as the last
\* handler that changed the editor.
other_handler(fun, ed, args, ev, fails) ==
    IF ev # Validate THEN Return(ed, Ok)
    ELSE IF args_len(args) < positionals_read(fun, args) THEN Return(ed, Panic)
    ELSE IF fails THEN Return(ed, "handler error")
    ELSE Return([ed EXCEPT !.effect = Some(fun)], Ok)


\* ------------------------------------------------- views and documents
\* The documents of the editor, in the order of their ids.
Documents == <<"a.rs", "b.rs">>

\* The modified documents, in the order of their ids.
modified_ids(ed) == SelectSeq(Documents, LAMBDA d : d \in ed.modified)

\* "{n} unsaved buffer{s} remaining: {names:?}"
UnsavedMessage(docs) ==
    IF docs = <<"a.rs">> THEN "1 unsaved buffer remaining: [\"a.rs\"]"
    ELSE IF docs = <<"b.rs">> THEN "1 unsaved buffer remaining: [\"b.rs\"]"
    ELSE "2 unsaved buffers remaining: [\"a.rs\", \"b.rs\"]"

\* Editor::switch(id, Action::Replace): the current view shows the document.
switch(ed, doc) == [ed EXCEPT !.doc = doc]

buffers_remaining_impl(ed) ==
    LET ids == modified_ids(ed)
    IN  IF ids # <<>>
        THEN Return(IF ed.doc \notin ed.modified THEN switch(ed, ids[1]) ELSE ed,
                    UnsavedMessage(ids))
        ELSE Return(ed, Ok)

\* Editor::close(view): the view leaves the tree; the focus goes to a view that
\* is left, and is 0 once none is.
close(ed, view) ==
    LET left == ed.views \ {view}
    IN  [ed EXCEPT !.views = left,
                   !.focus = IF left = {} THEN 0
                             ELSE IF ed.focus \in left THEN ed.focus
                             ELSE CHOOSE v \in left : \A o \in left : v <= o]

RECURSIVE close_all(_, _)
close_all(ed, views) ==
    IF views = {} THEN ed
    ELSE LET v == CHOOSE v \in views : \A o \in views : v <= o
         IN  close_all(close(ed, v), views \ {v})

\* cx.block_try_flush_writes(): the writes in flight are waited for; the error of
\* one that failed is returned.
block_try_flush_writes(ed, fails) ==
    IF ed.saving # {} /\ fails THEN Return([ed EXCEPT !.saving = {}], "write error")
    ELSE Return([ed EXCEPT !.saving = {},
                           !.written = @ \cup ed.saving,
                           !.modified = @ \ ed.saving], Ok)

quit_every_view(ed, args, ev, fails) ==
    IF ev # Validate THEN Return(ed, Ok)
    ELSE IF ~args_is_empty(args) THEN Return(ed, ":quit takes no arguments")
    ELSE LET r == IF Cardinality(ed.views) = 1
                  THEN buffers_remaining_impl(ed) ELSE Return(ed, Ok)
             f == block_try_flush_writes(r.editor, fails)
         IN  IF r.result # Ok THEN r
             ELSE IF f.result # Ok THEN f
             ELSE Return(close_all(f.editor, f.editor.views), Ok)

quit_unchecked(ed, args, ev, fails) ==
    IF ev # Validate THEN Return(ed, Ok)
    ELSE IF ~args_is_empty(args) THEN Return(ed, ":quit takes no arguments")
    ELSE LET f == block_try_flush_writes(ed, fails)
         IN  IF f.result # Ok THEN f
             ELSE Return(close(f.editor, f.editor.focus), Ok)

quit(ed, args, ev, fails) ==
    IF ev # Validate THEN Return(ed, Ok)
    ELSE IF ~args_is_empty(args) THEN Return(ed, ":quit takes no arguments")
    ELSE LET r == IF Cardinality(ed.views) = 1
                  THEN buffers_remaining_impl(ed) ELSE Return(ed, Ok)
             f == block_try_flush_writes(r.editor, fails)
         IN  IF r.result # Ok THEN r
             ELSE IF f.result # Ok THEN f
             ELSE Return(close(f.editor, f.editor.focus), Ok)

force_quit(ed, args, ev, fails) ==
    IF ev # Validate THEN Return(ed, Ok)
    ELSE IF ~args_is_empty(args) THEN Return(ed, ":quit! takes no arguments")
    ELSE LET f == block_try_flush_writes(ed, fails)
         IN  IF f.result # Ok THEN f
             ELSE Return(close(f.editor, f.editor.focus), Ok)

quit_all_impl_current_view(ed, force, fails) ==
    LET f == block_try_flush_writes(ed, fails)
        r == IF ~force THEN buffers_remaining_impl(f.editor) ELSE Return(f.editor, Ok)
    IN  IF f.result # Ok THEN f
        ELSE IF r.result # Ok THEN r
        ELSE Return(close(r.editor, r.editor.focus), Ok)

quit_all_impl(ed, force, fails) ==
    LET f == block_try_flush_writes(ed, fails)
        r == IF ~force THEN buffers_remaining_impl(f.editor) ELSE Return(f.editor, Ok)
    IN  IF f.result # Ok THEN f
        ELSE IF r.result # Ok THEN r
        ELSE Return(close_all(r.editor, r.editor.views), Ok)

quit_all(ed, args, ev, fails) ==
    IF ev # Validate THEN Return(ed, Ok) ELSE quit_all_impl(ed, FALSE, fails)

force_quit_all(ed, args, ev, fails) ==
    IF ev # Validate THEN Return(ed, Ok) ELSE quit_all_impl(ed, TRUE, fails)

\* str::parse::<i32>() of a word.
parse_i32(word) ==
    IF Len(word) = 1 /\ word[1] \in DOMAIN Numerals THEN Some(Numerals[word[1]]) ELSE None

\* args.first().and_then(|code| code.parse::<i32>().ok()).unwrap_or(1)
exit_code_of(args) ==
    IF args_first(args) = None THEN 1
    ELSE IF parse_i32(args_first(args)[1]) = None THEN 1
    ELSE parse_i32(args_first(args)[1])[1]

cquit(ed, args, ev, fails) ==
    IF ev # Validate THEN Return(ed, Ok)
    ELSE quit_all_impl([ed EXCEPT !.exit_code = exit_code_of(args)], FALSE, fails)

force_cquit(ed, args, ev, fails) ==
    IF ev # Validate THEN Return(ed, Ok)
    ELSE quit_all_impl([ed EXCEPT !.exit_code = exit_code_of(args)], TRUE, fails)

\* ----------------------------------------------------------- writing
\* doc.auto_format(): the format request of the document, if it has a formatter.
auto_format(ed) == IF ed.formatter THEN Some(ed.doc) ELSE None

\* Editor::save(id, path, force): the write is refused, or is put in flight.
save(ed, path, force, fails) ==
    IF fails THEN Return(ed, "write error")
    ELSE Return([ed EXCEPT !.saving = @ \cup {ed.doc}], Ok)

write_impl(ed, path, force, format, fails) ==
    LET fmt == IF ed.auto_format /\ format THEN auto_format(ed) ELSE None
        queued == IF fmt # None THEN [ed EXCEPT !.jobs = @ \cup {fmt[1]}] ELSE ed
    IN  IF fmt = None THEN save(queued, path, force, fails)
        ELSE Return(queued, Ok)

write(ed, args, ev, fails) ==
    IF ev # Validate THEN Return(ed, Ok)
    ELSE write_impl(ed, args_first(args), FALSE, args_has_flag(args, "no-format"), fails)

force_write(ed, args, ev, fails) ==
    IF ev # Validate THEN Return(ed, Ok)
    ELSE write_impl(ed, args_first(args), TRUE, args_has_flag(args, "no-format"), fails)

write_quit(ed, args, ev, fails) ==
    IF ev # Validate THEN Return(ed, Ok)
    ELSE LET w == write_impl(ed, args_first(args), FALSE,
                             args_has_flag(args, "no-format"), fails)
             f == block_try_flush_writes(w.editor, fails)
         IN  IF w.result # Ok THEN w
             ELSE IF f.result # Ok THEN f
             ELSE quit(f.editor, ArgsEmpty, ev, fails)

force_write_quit(ed, args, ev, fails) ==
    IF ev # Validate THEN Return(ed, Ok)
    ELSE LET w == write_impl(ed, args_first(args), TRUE,
                             args_has_flag(args, "no-format"), fails)
             f == block_try_flush_writes(w.editor, fails)
         IN  IF w.result # Ok THEN w
             ELSE IF f.result # Ok THEN f
             ELSE force_quit(f.editor, ArgsEmpty, ev, fails)

\* ---------------------------------------------------------- language
DEFAULT_LANGUAGE_NAME == "text"

Languages == {"rust"}

language(ed, args, ev) ==
    IF ev # Validate THEN Return(ed, Ok)
    ELSE IF args_is_empty(args)
    THEN Return(set_status(ed, IF ed.language = None THEN DEFAULT_LANGUAGE_NAME
                                    ELSE ed.language[1]), Ok)
    ELSE IF args_len(args) # 1
    THEN Return(ed, "Bad arguments. Usage: :set-language language")
    ELSE LET language_id == args.positionals[1]
         IN  IF language_id = <<DEFAULT_LANGUAGE_NAME>>
             THEN Return([ed EXCEPT !.language = None], Ok)
             ELSE IF Len(language_id) = 1 /\ language_id[1] \in Languages
             THEN Return([ed EXCEPT !.language = Some(language_id[1])], Ok)
             ELSE Return(ed, "invalid language id")

\* ----------------------------------------------------- configuration
\* A JSON value: its kind and its content.  A string holds its word, a number its
\* decimal text, a bool "true" or "false", an array the texts of its elements.
Value(kind, val) == [kind |-> kind, val |-> val]

\* serde_json::json!(config): the options by key, each with the kind its type has.
ConfigAtRest ==
    ("auto-format" :> Value("Bool", <<"true">>)) @@
    ("bufferline" :> Value("String", <<"never">>)) @@
    ("scrolloff" :> Value("Number", <<"2">>)) @@
    ("rulers" :> Value("Array", <<>>)) @@
    ("lsp" :> Value("Object", <<>>))

\* The strings the type of a string option accepts.
Variants == {<<"never">>, <<"always">>, <<"multiple">>}

\* str::to_lowercase() of a word.
Lowercase == ("BUFFERLINE" :> "bufferline") @@ ("SCROLLOFF" :> "scrolloff")

to_lowercase(word) ==
    [k \in DOMAIN word |-> IF word[k] \in DOMAIN Lowercase THEN Lowercase[word[k]] ELSE word[k]]

\* config.pointer_mut("/" + key): the option the key names, if any.
pointer_mut(config, key) ==
    IF Len(key) = 1 /\ key[1] \in DOMAIN config THEN Some(key[1]) ELSE None

\* str::parse::<serde_json::Number>() of a word, as the text that prints it.
NumberTexts == ("0" :> "0") @@ ("2" :> "2") @@ ("9" :> "9") @@ ("2e0" :> "2.0")

parse_number(word) ==
    IF Len(word) = 1 /\ word[1] \in DOMAIN NumberTexts
    THEN Some(<<NumberTexts[word[1]]>>) ELSE None

\* One JSON value read from a word; <<>> where the word is not JSON.
JsonTexts ==
    ("[1]" :> Value("Array", <<"1">>)) @@
    ("[1.0]" :> Value("Array", <<"1.0">>)) @@
    ("[2]" :> Value("Array", <<"2">>)) @@
    ("[]" :> Value("Array", <<>>)) @@
    ("1" :> Value("Number", <<"1">>))

from_str(word) ==
    IF Len(word) = 1 /\ word[1] \in DOMAIN JsonTexts THEN Some(JsonTexts[word[1]]) ELSE None

\* serde_json::from_value::<Config>(config): the value fits the type of its option.
from_value_ok(value) ==
    CASE value.kind = "String" -> value.val \in Variants
      [] value.kind = "Number" -> value.val \in {<<"0">>, <<"2">>, <<"9">>}
      [] value.kind = "Array" -> \A k \in DOMAIN value.val : value.val[k] \in {"1", "2"}
      [] OTHER -> TRUE

\* iter.skip_while(|e| e != value)
RECURSIVE skip_while_ne(_, _)
skip_while_ne(items, value) ==
    IF items = <<>> THEN <<>>
    ELSE IF items[1] = value THEN items
    ELSE skip_while_ne(Tail(items), value)

\* iter.nth(n)
nth(items, n) == IF Len(items) > n THEN Some(items[n + 1]) ELSE None

\* What one arm of the match in toggle_option gives: the new value or an error.
Toggled(value) == [ok |-> TRUE, value |-> value, error |-> Ok]

Refused(error) == [ok |-> FALSE, value |-> Value("Null", <<>>), error |-> error]

toggle_bool_any_arguments(value, args) ==
    Toggled(Value("Bool", IF value.val = <<"true">> THEN <<"false">> ELSE <<"true">>))

toggle_bool(value, args) ==
    IF args_len(args) > 1
    THEN Refused("Bad arguments. For boolean configurations use: :toggle key")
    ELSE Toggled(Value("Bool", IF value.val = <<"true">> THEN <<"false">> ELSE <<"true">>))

toggle_string_same(value, args) ==
    IF args_len(args) < 3
    THEN Refused("Bad arguments. For string configurations use: :toggle key val1 val2 ...")
    ELSE Toggled(Value("String",
            LET next == nth(skip_while_ne(Tail(args.positionals), value.val), 0)
            IN  IF next # None THEN next[1] ELSE args.positionals[2]))

toggle_string(value, args) ==
    IF args_len(args) < 3
    THEN Refused("Bad arguments. For string configurations use: :toggle key val1 val2 ...")
    ELSE Toggled(Value("String",
            LET next == nth(skip_while_ne(Tail(args.positionals), value.val), 1)
            IN  IF next # None THEN next[1] ELSE args.positionals[2]))

toggle_number(value, args) ==
    IF args_len(args) < 3
    THEN Refused("Bad arguments. For number configurations use: :toggle key val1 val2 ...")
    ELSE LET next == nth(skip_while_ne(args.positionals, value.val), 1)
             text == IF next # None THEN next[1] ELSE args.positionals[2]
         IN  IF parse_number(text) = None THEN Refused("invalid number")
             ELSE Toggled(Value("Number", parse_number(text)[1]))

\* The array arm reads the JSON values that follow the key.
toggle_array_first(value, args) ==
    LET rest == Tail(args.positionals)
        first == IF Len(rest) >= 1 THEN from_str(rest[1]) ELSE None
        second == IF Len(rest) >= 2 THEN from_str(rest[2]) ELSE None
    IN  IF Len(rest) >= 1 /\ first = None THEN Refused("expected value")
        ELSE IF Len(rest) >= 2 /\ second = None THEN Refused("expected value")
        ELSE IF first = None \/ second = None
        THEN Refused("Bad arguments. For list configurations use: :toggle key [...] [...]")
        ELSE IF first[1].kind = "Array" /\ second[1].kind = "Array"
        THEN Toggled(first[1])
        ELSE Refused("values must be lists")

toggle_array(value, args) ==
    LET rest == Tail(args.positionals)
        first == IF Len(rest) >= 1 THEN from_str(rest[1]) ELSE None
        second == IF Len(rest) >= 2 THEN from_str(rest[2]) ELSE None
    IN  IF Len(rest) >= 1 /\ first = None THEN Refused("expected value")
        ELSE IF Len(rest) >= 2 /\ second = None THEN Refused("expected value")
        ELSE IF first = None \/ second = None
        THEN Refused("Bad arguments. For list configurations use: :toggle key [...] [...]")
        ELSE IF first[1].kind = "Array" /\ second[1].kind = "Array"
        THEN Toggled(IF first[1].val = value.val THEN second[1] ELSE first[1])
        ELSE Refused("values must be lists")

toggle_option(ed, args, ev) ==
    IF ev # Validate THEN Return(ed, Ok)
    ELSE IF args_is_empty(args)
    THEN Return(ed, "Bad arguments. Usage: :toggle key [values]?")
    ELSE LET key == to_lowercase(args.positionals[1])
             pointer == pointer_mut(ed.config, key)
         IN  IF pointer = None THEN Return(ed, "Unknown key")
             ELSE LET value == ed.config[pointer[1]]
                      new == CASE value.kind = "Bool" -> toggle_bool(value, args)
                               [] value.kind = "String" -> toggle_string(value, args)
                               [] value.kind = "Number" -> toggle_number(value, args)
                               [] value.kind = "Array" -> toggle_array(value, args)
                               [] OTHER -> Refused("Configuration does not support toggle yet")
                  IN  IF ~new.ok THEN Return(ed, new.error)
                      ELSE IF ~from_value_ok(new.value) THEN Return(ed, "invalid value")
                      ELSE Return(set_status([ed EXCEPT !.config[pointer[1]] = new.value],
                                             "option is now set"), Ok)
\* (command.fun)(cx, args, event)
call(fun, ed, args, ev, fails) ==
    IF fun = "goto_line_number" THEN goto_line_number(ed, args, ev)
    ELSE IF fun = "theme" THEN theme(ed, args, ev)
    ELSE IF fun = "quit" THEN quit(ed, args, ev, fails)
    ELSE IF fun = "force_quit" THEN force_quit(ed, args, ev, fails)
    ELSE IF fun = "quit_all" THEN quit_all(ed, args, ev, fails)
    ELSE IF fun = "force_quit_all" THEN force_quit_all(ed, args, ev, fails)
    ELSE IF fun = "cquit" THEN cquit(ed, args, ev, fails)
    ELSE IF fun = "force_cquit" THEN force_cquit(ed, args, ev, fails)
    ELSE IF fun = "write" THEN write(ed, args, ev, fails)
    ELSE IF fun = "force_write" THEN force_write(ed, args, ev, fails)
    ELSE IF fun = "write_quit" THEN write_quit(ed, args, ev, fails)
    ELSE IF fun = "force_write_quit" THEN force_write_quit(ed, args, ev, fails)
    ELSE IF fun = "language" THEN language(ed, args, ev)
    ELSE IF fun = "toggle_option" THEN toggle_option(ed, args, ev)
    ELSE other_handler(fun, ed, args, ev, fails)

\* ------------------------------------------------------------- dispatch
\* A handler call the callback made, with what the handler returned.
Invocation(fun, args, ev, result) ==
    [fun |-> fun, args |-> args, event |-> ev, result |-> result]

\* What one run of the callback leaves: the editor and the handler calls it made.
Outcome(ed, calls) == [editor |-> ed, invoked |-> calls]

map_get(m, word) ==
    IF Len(word) = 1 /\ word[1] \in DOMAIN m THEN Some(m[word[1]]) ELSE None

\* if let Err(err) = handler(...) { cx.editor.set_error(format!("{err}")) }
report_silent(r) == r.editor

report(r) ==
    IF r.result \notin {Ok, Panic} THEN set_error(r.editor, r.result) ELSE r.editor

\* The arity of the parsed arguments is checked on this event.
arity_checked_always(ev) == TRUE

arity_checked_never(ev) == FALSE

arity_checked(ev) == ev = Validate

\* The command token is neither a number nor a key of the map.
unknown_command_silent(ed, ev) == ed

unknown_command_any_event(ed, ev) == set_error(ed, "no such command")

unknown_command(ed, ev) ==
    IF ev = Validate THEN set_error(ed, "no such command") ELSE ed

\* command.signature.parse_mode, as handed to Args::from_signature.
parse_mode_of_parameters(cmd) == "Parameters"

parse_mode_of(cmd) == cmd.signature.parse_mode

\* The second closure handed to Prompt::new in command_mode.
callback_fn(ed, line, ev, fails) ==
    LET sw == Shellwords(line)
        name == shellwords_command(sw)
    IN  IF name = <<>> THEN Outcome(ed, <<>>)
        ELSE IF parse_usize(name) # None
        THEN LET r == goto_line_number(ed, ArgsFrom(name), ev)
             IN  Outcome(report(r),
                         <<Invocation("goto_line_number", ArgsFrom(name), ev, r.result)>>)
        ELSE IF map_get(TYPABLE_COMMAND_MAP, name) # None
        THEN LET cmd == TYPABLE_COMMAND_LIST[map_get(TYPABLE_COMMAND_MAP, name)[1]]
                 parsed == ArgsFromSignature(shellwords_args(sw),
                                             parse_mode_of(cmd),
                                             cmd.signature.flags)
             IN  IF ~parsed.ok THEN Outcome(set_error(ed, parsed.err), <<>>)
                 ELSE IF arity_checked(ev)
                         /\ ensure_signature(cmd, args_len(parsed.args)) # Ok
                 THEN Outcome(set_error(ed, ensure_signature(cmd, args_len(parsed.args))), <<>>)
                 ELSE LET r == call(cmd.fun, ed, parsed.args, ev, fails)
                      IN  Outcome(report(r),
                                  <<Invocation(cmd.fun, parsed.args, ev, r.result)>>)
        ELSE Outcome(unknown_command(ed, ev), <<>>)

\* ----------------------------------------------------------- completion
\* str::len of a word or a line: the bytes of its atoms.
RECURSIVE byte_len(_)
byte_len(s) == IF s = <<>> THEN 0 ELSE Len(Head(s)) + byte_len(Tail(s))

args_last(args) ==
    IF args.positionals = <<>> THEN None
    ELSE Some(args.positionals[Len(args.positionals)])

\* self.signature.completer.positional_args.get(n)
positional_args_get(cmd, n) ==
    IF n < Len(cmd.signature.completer.positional_args)
    THEN Some(cmd.signature.completer.positional_args[n + 1])
    ELSE None

unwrap_or(opt, default) == IF opt = None THEN default ELSE opt[1]

completer_for_argument_number_var_args(cmd, n) ==
    cmd.signature.completer.var_args

completer_for_argument_number(cmd, n) ==
    unwrap_or(positional_args_get(cmd, n), cmd.signature.completer.var_args)

\* The names and aliases of the registry that contain the characters of a pattern
\* in order, for the patterns a line of the completion model can hold.
FuzzyTable ==
    ("w" :> {
          "write", "w", "write!", "w!", "write-buffer-close", "wbc",
          "write-buffer-close!", "wbc!", "new", "write-quit", "wq", "write-quit!",
          "wq!", "write-all", "wa", "write-all!", "wa!", "write-quit-all", "wqa",
          "write-quit-all!", "wqa!", "show-clipboard-provider", "show-directory", "pwd",
          "lsp-workspace-command", "vsplit-new", "vnew", "hsplit-new", "hnew", "reflow",
          "config-open-workspace", "redraw"
       })
    @@ ("o" :> {
          "echo", "open", "o", "buffer-close", "bclose", "buffer-close!", "bclose!",
          "buffer-close-others", "bco", "bcloseother", "buffer-close-others!", "bco!",
          "bcloseother!", "buffer-close-all", "bcloseall", "buffer-close-all!",
          "bcloseall!", "buffer-previous", "write-buffer-close", "write-buffer-close!",
          "format", "yank-join", "clipboard-yank", "clipboard-yank-join",
          "primary-clipboard-yank", "primary-clipboard-yank-join",
          "clipboard-paste-after", "clipboard-paste-before", "clipboard-paste-replace",
          "primary-clipboard-paste-after", "primary-clipboard-paste-before",
          "primary-clipboard-paste-replace", "show-clipboard-provider",
          "change-current-directory", "show-directory", "encoding", "character-info",
          "reload", "reload-all", "lsp-workspace-command", "lsp-stop",
          "tree-sitter-scopes", "debug-remote", "tutor", "goto", "set-option",
          "toggle-option", "toggle", "get-option", "sort", "reflow", "config-reload",
          "config-open", "config-open-workspace", "log-open", "insert-output",
          "append-output", "pipe-to", "run-shell-command", "move", "yank-diagnostic"
       })
    @@ ("q" :> {
          "quit", "q", "quit!", "q!", "write-quit", "wq", "write-quit!", "wq!",
          "write-quit-all", "wqa", "write-quit-all!", "wqa!", "quit-all", "qa",
          "quit-all!", "qa!", "cquit", "cq", "cquit!", "cq!"
       })
    @@ ("a" :> {
          "buffer-close-all", "bca", "bcloseall", "buffer-close-all!", "bca!",
          "bcloseall!", "format", "earlier", "ear", "later", "lat", "write-all", "wa",
          "write-all!", "wa!", "write-quit-all", "wqa", "xa", "write-quit-all!", "wqa!",
          "xa!", "quit-all", "qa", "quit-all!", "qa!", "yank-join", "clipboard-yank",
          "clipboard-yank-join", "primary-clipboard-yank",
          "primary-clipboard-yank-join", "clipboard-paste-after",
          "clipboard-paste-before", "clipboard-paste-replace",
          "primary-clipboard-paste-after", "primary-clipboard-paste-before",
          "primary-clipboard-paste-replace", "show-clipboard-provider",
          "change-current-directory", "character-info", "char", "reload", "reload-all",
          "rla", "update", "lsp-workspace-command", "lsp-restart",
          "tree-sitter-highlight-name", "debug-start", "debug-eval", "set-language",
          "lang", "config-reload", "config-open-workspace", "append-output",
          "run-shell-command", "reset-diff-change", "clear-register", "redraw",
          "yank-diagnostic", "read"
       })

\* fuzzy_match(pattern, items, false): the items the pattern matches, an empty
\* pattern matching every item.  The pattern is matched word by word.
fuzzy_match(pattern, items) ==
    LET ws == words_from(pattern, 1, <<>>, FALSE)
        hit(item) ==
            \A k \in DOMAIN ws :
                /\ Len(ws[k]) = 1
                /\ ws[k][1] \in DOMAIN FuzzyTable
                /\ item \in FuzzyTable[ws[k][1]]
    IN  SelectSeq(items, hit)

\* shellwords::escape: whitespace and the escape character are escaped.
RECURSIVE escape(_)
escape(content) ==
    IF content = <<>> THEN <<>>
    ELSE (IF Head(content) \in {Space, Escape} THEN <<Escape>> ELSE <<>>)
            \o <<Head(content)>> \o escape(Tail(content))

\* A Completer called with a word: completers::none offers nothing; any other
\* completer offers answer, ranges counted from the start of the word.
Completion(start, content) == [start |-> start, content |-> content]

completer(name, word, answer) ==
    IF name = "none" THEN <<>>
    ELSE [k \in DOMAIN answer |->
            Completion(IF answer[k].start <= byte_len(word)
                       THEN answer[k].start ELSE byte_len(word),
                       answer[k].content)]

names_and_aliases(list) == [i \in DOMAIN MapPairs |-> MapPairs[i][1]]

\* TYPABLE_COMMAND_LIST.iter().map(|command| command.name)
names(list) == [i \in DOMAIN list |-> list[i].name]

\* What the completion closure returns, with the call it made to a completer.
Completions(candidates, pattern, called) ==
    [candidates |-> candidates, pattern |-> pattern, called |-> called]

\* args.last().map_or(("", 0), |last| (last, last.len()))
word_of(args, sw) == unwrap_or(args_last(args), <<>>)

\* input.len() - len

offset_of(line, word) == byte_len(line) - byte_len(word)

\* The first closure handed to Prompt::new in command_mode.
completion_fn(line, answer) ==
    LET sw == Shellwords(line)
        name == shellwords_command(sw)
        args == ArgsFrom(shellwords_args(sw))
    IN  IF name = <<>>
           \/ (args_first(args) = None /\ ~shellwords_ends_with_whitespace(sw))
        THEN LET found == fuzzy_match(line, names(TYPABLE_COMMAND_LIST))
             IN  Completions([k \in DOMAIN found |-> Completion(0, <<found[k]>>)],
                             Some(line), None)
        ELSE LET word == word_of(args, sw)
                 tc == map_get(TYPABLE_COMMAND_MAP, name)
             IN  IF tc = None THEN Completions(<<>>, None, None)
                 ELSE LET c == completer_for_argument_number(
                                   TYPABLE_COMMAND_LIST[tc[1]], argument_number_of(sw))
                          found == completer(c, word, answer)
                      IN  Completions(
                              [k \in DOMAIN found |->
                                  Completion(found[k].start + offset_of(line, word),
                                             escape(found[k].content))],
                              None,
                              Some([completer |-> c, word |-> word, found |-> found]))

\* --------------------------------------------------- values at rest
NoCommand == [name |-> "", signature |-> [positionals |-> <<0, None>>]]

SignatureAtRest == command = NoCommand /\ count = 0 /\ verdict = None
RegistryAtRest == map = EmptyMap /\ cursor = 0
SlotAtRest == slot = None
CompletionAtRest == completion = None
SessionAtRest == session = None
\* The editor as it starts: one view on an unmodified document, nothing in flight.
EditorAtRest ==
    [status |-> None, selection |-> 1, last_selection |-> None,
     jumps |-> <<>>, theme |-> "default", theme_preview |-> None,
     true_color |-> FALSE, effect |-> None,
     views |-> {1}, focus |-> 1, doc |-> "a.rs", modified |-> {},
     saving |-> {}, written |-> {}, jobs |-> {}, exit_code |-> 0,
     auto_format |-> TRUE, formatter |-> FALSE, language |-> None,
     config |-> ConfigAtRest]

CallbackAtRest ==
    /\ event = None
    /\ invoked = <<>>
    /\ changed = {}
    /\ prompt = "closed"

DispatchAtRest == CallbackAtRest /\ editor = EditorAtRest

\* ------------------------------------- specification: signature check
Signatures ==
    {<<min, max>> : min \in 0..MaxMin,
                    max \in {None} \cup {Some(m) : m \in 0..MaxMax}}

InitSignature ==
    /\ \E p \in Signatures :
          /\ p[2] # None => p[1] <= p[2][1]
          /\ command = [name |-> "cmd", signature |-> [positionals |-> p]]
    /\ count \in 0..MaxCount
    /\ verdict = None
    /\ RegistryAtRest /\ SlotAtRest /\ DispatchAtRest /\ input = <<>>
    /\ CompletionAtRest /\ SessionAtRest

EnsureSignature ==
    /\ verdict = None
    /\ verdict' = Some(ensure_signature(command, count))
    /\ UNCHANGED <<command, count, map, cursor, input, slot, event, invoked, changed, prompt, editor, completion, session>>

NextSignature == EnsureSignature

SpecSignature == InitSignature /\ [][NextSignature]_vars

\* ------------------------------------------- specification: registry
InitRegistry ==
    /\ map = EmptyMap
    /\ cursor = 0
    /\ SignatureAtRest /\ SlotAtRest /\ DispatchAtRest /\ input = <<>>
    /\ CompletionAtRest /\ SessionAtRest

\* One step of collect(): the next pair of the flattened list goes into the map.
Collect ==
    /\ cursor < Len(MapPairs)
    /\ map' = insert(map, MapPairs[cursor + 1])
    /\ cursor' = cursor + 1
    /\ UNCHANGED <<command, count, verdict, input, slot, event, invoked, changed, prompt, editor, completion, session>>

NextRegistry == Collect

SpecRegistry == InitRegistry /\ [][NextRegistry]_vars

\* ----------------------------------- specification: slot computation
LineAtoms == {"w", Space, Escape}

BoundedSeq(S, n) == UNION {[1..k -> S] : k \in 0..n}

InitSlot ==
    /\ input \in BoundedSeq(LineAtoms, MaxLineLen)
    /\ slot = None
    /\ SignatureAtRest /\ RegistryAtRest /\ DispatchAtRest
    /\ CompletionAtRest /\ SessionAtRest

ArgumentNumberOf ==
    /\ slot = None
    /\ slot' = Some(argument_number_of(Shellwords(input)))
    /\ UNCHANGED <<command, count, verdict, map, cursor, input, event, invoked, changed, prompt, editor, completion, session>>

NextSlot == ArgumentNumberOf

SpecSlot == InitSlot /\ [][NextSlot]_vars

\* ------------------------------------------- specification: dispatch
\* The lines a session hands to the callback: nothing, or a command token
\* followed by up to MaxArgs words.
CommandTokens == {"quit", "write", "theme", "nosuchcommand", "2"}

ArgWords == {<<"dark">>, <<Dash, Dash, "no-format">>, <<Dash, Dash, "bogus">>}

RECURSIVE join(_)
join(ws) == IF ws = <<>> THEN <<>> ELSE <<Space>> \o Head(ws) \o join(Tail(ws))

PromptLines ==
    {<<>>, <<Space>>} \cup {<<c>> \o join(ws) : c \in CommandTokens, ws \in BoundedSeq(ArgWords, MaxArgs)}

Init ==
    /\ input = <<>>
    /\ SignatureAtRest /\ RegistryAtRest /\ SlotAtRest
    /\ DispatchAtRest
    /\ CompletionAtRest /\ SessionAtRest

\* command_mode: the prompt is pushed onto the compositor.  Once the last view is
\* closed the editor has exited.
CommandMode ==
    /\ prompt = "closed"
    /\ editor.views # {}
    /\ prompt' = "open"
    /\ UNCHANGED <<command, count, verdict, map, cursor, input, slot, event, invoked, changed, editor, completion, session>>

\* One run of the callback on line with event ev.
Callback(line, ev, fails) ==
    \E out \in {callback_fn(editor, line, ev, fails)} :
        /\ input' = line
        /\ event' = Some(ev)
        /\ invoked' = out.invoked
        /\ changed' = {f \in DOMAIN editor : out.editor[f] # editor[f]}
        /\ editor' = out.editor
        /\ UNCHANGED <<command, count, verdict, map, cursor, slot, completion>>

PromptUpdate ==
    /\ prompt = "open"
    /\ \E line \in PromptLines : Callback(line, Update, FALSE)
    /\ prompt' = "open"
    /\ UNCHANGED session

PromptValidate ==
    /\ prompt = "open"
    /\ \E line \in PromptLines, fails \in BOOLEAN : Callback(line, Validate, fails)
    /\ prompt' = "closed"
    /\ UNCHANGED session

PromptAbort ==
    /\ prompt = "open"
    /\ \E line \in PromptLines : Callback(line, Abort, FALSE)
    /\ prompt' = "closed"
    /\ UNCHANGED session

Next == CommandMode \/ PromptUpdate \/ PromptValidate \/ PromptAbort

Spec == Init /\ [][Next]_vars

\* ------------------------------------------ specification: completion
\* The lines completion is asked about: the characters typed so far.
CompletionAtoms == {"w", "o", "q", "a", Space, Escape}

CompletionLines == BoundedSeq(CompletionAtoms, MaxCompletionLen)

\* What a completer may answer: nothing, or one candidate.
CompletionContents == {<<"b">>, <<"b", Space, "b">>}

Answers ==
    {<<>>} \cup {<<Completion(s, c)>> : s \in 0..MaxRangeStart, c \in CompletionContents}

InitCompletion ==
    /\ input \in CompletionLines
    /\ completion = None
    /\ SignatureAtRest /\ RegistryAtRest /\ SlotAtRest /\ DispatchAtRest
    /\ SessionAtRest

Complete ==
    /\ completion = None
    /\ \E answer \in Answers : completion' = Some(completion_fn(input, answer))
    /\ UNCHANGED <<command, count, verdict, map, cursor, input, slot, event, invoked, changed, prompt, editor, session>>

NextCompletion == Complete

SpecCompletion == InitCompletion /\ [][NextCompletion]_vars

\* ------------------------------------------- specification: handlers
\* A handler called on its own, as a key binding calls it: any command of the
\* list, any event, the arguments parsed from a short text.
HandlerTexts ==
    {<<>>, <<"2">>, <<"2", Space, "2">>, <<Dash, Dash, "all">>, <<Dash, "a">>}

InitHandlers ==
    /\ \E i \in DOMAIN TYPABLE_COMMAND_LIST : command = TYPABLE_COMMAND_LIST[i]
    /\ input \in HandlerTexts
    /\ count = 0 /\ verdict = None
    /\ RegistryAtRest /\ SlotAtRest /\ DispatchAtRest
    /\ CompletionAtRest /\ SessionAtRest

\* (command.fun)(cx, args, event)
Invoke ==
    /\ event = None
    /\ \E ev \in PromptEvent, fails \in BOOLEAN,
          parsed \in {ArgsFromSignature(input, command.signature.parse_mode,
                                        command.signature.flags)} :
          /\ parsed.ok
          /\ \E r \in {call(command.fun, editor, parsed.args, ev, fails)} :
                /\ event' = Some(ev)
                /\ invoked' = <<Invocation(command.fun, parsed.args, ev, r.result)>>
                /\ changed' = {f \in DOMAIN editor : r.editor[f] # editor[f]}
                /\ editor' = r.editor
    /\ UNCHANGED <<command, count, verdict, map, cursor, input, slot, prompt, completion, session>>

NextHandlers == Invoke

SpecHandlers == InitHandlers /\ [][NextHandlers]_vars

\* ------------------------------- specification: line-number preview
\* The lines of a session that previews line numbers: nothing, a number, the goto
\* command with or without a number, and a word that names no command.
GotoLines ==
    {<<>>, <<"2">>, <<"9">>, <<"goto", Space, "2">>, <<"goto">>, <<"nosuchcommand">>}

\* What a session, or a call from a key binding, began with: the selection then,
\* whether an Update has previewed a line since, and whether it is a call from a
\* key binding.
Session(origin, previewed, direct) ==
    [origin |-> origin, previewed |-> previewed, direct |-> direct]

\* The calls of a callback preview a line: goto_line_number took a number on Update.
previews(calls) ==
    \E k \in DOMAIN calls :
        /\ calls[k].fun = "goto_line_number"
        /\ calls[k].event = Update
        /\ ~args_is_empty(calls[k].args)
        /\ calls[k].result = Ok

InitGoto ==
    /\ input = <<>>
    /\ SignatureAtRest /\ RegistryAtRest /\ SlotAtRest
    /\ DispatchAtRest
    /\ CompletionAtRest /\ SessionAtRest

\* command_mode: the prompt opens on an empty line.
GotoOpen ==
    /\ prompt = "closed"
    /\ prompt' = "open"
    /\ input' = <<>>
    /\ event' = None
    /\ invoked' = <<>>
    /\ changed' = {}
    /\ session' = Some(Session(editor.selection, FALSE, FALSE))
    /\ UNCHANGED <<command, count, verdict, map, cursor, slot, editor, completion>>

\* The line changes and the callback runs on the new line.
GotoUpdate ==
    /\ prompt = "open"
    /\ \E line \in GotoLines \ {input} : Callback(line, Update, FALSE)
    /\ session' = Some([session[1] EXCEPT !.previewed = @ \/ previews(invoked')])
    /\ prompt' = "open"

\* Enter: the callback runs on the line as it stands and the prompt closes.
GotoValidate ==
    /\ prompt = "open"
    /\ Callback(input, Validate, FALSE)
    /\ prompt' = "closed"
    /\ UNCHANGED session

\* Escape: the callback runs on the line as it stands and the prompt closes.
GotoAbort ==
    /\ prompt = "open"
    /\ Callback(input, Abort, FALSE)
    /\ prompt' = "closed"
    /\ UNCHANGED session

\* goto_line_number called from a key binding: Validate, no prompt, no Update.
KeyGoto ==
    /\ prompt = "closed"
    /\ \E n \in {"2", "9"} :
          \E r \in {goto_line_number(editor, ArgsFrom(<<n>>), Validate)} :
              /\ input' = <<n>>
              /\ event' = Some(Validate)
              /\ invoked' = <<Invocation("goto_line_number", ArgsFrom(<<n>>), Validate, r.result)>>
              /\ changed' = {f \in DOMAIN editor : r.editor[f] # editor[f]}
              /\ editor' = r.editor
    /\ session' = Some(Session(editor.selection, FALSE, TRUE))
    /\ UNCHANGED <<command, count, verdict, map, cursor, slot, prompt, completion>>

NextGoto == GotoOpen \/ GotoUpdate \/ GotoValidate \/ GotoAbort \/ KeyGoto

SpecGoto == InitGoto /\ [][NextGoto]_vars

\* ------------------------------------- specification: one line, one event
\* The callback run once, on one line and one event, from an editor at rest.
LiteralCommands == {"insert-output", "append-output", "pipe", "pipe-to", "run-shell-command"}

LiteralLines ==
    {<<c>> \o join(ws) : c \in LiteralCommands,
                         ws \in BoundedSeq({<<"a">>, <<Dash, "x">>}, MaxSubmitArgs)}

\* A number alone, and a number with words after it.
NumberLines ==
    {<<n>> \o join(ws) : n \in {"2", "9"},
                         ws \in BoundedSeq({<<"a">>, <<"2">>}, MaxSubmitArgs)}

\* The commands that close views, alone and with an exit code.
QuitLines ==
    {<<"quit">>, <<"quit!">>, <<"quit-all">>, <<"quit-all!">>} \cup
    {<<c>> \o join(ws) : c \in {"cquit", "cquit!"},
                         ws \in BoundedSeq({<<"2">>, <<"x">>}, 1)}

\* One or two views, either document current, any of them modified, a write in
\* flight or none.
ViewEditors ==
    {[EditorAtRest EXCEPT !.views = v[1], !.focus = v[2], !.doc = d,
                          !.modified = m, !.saving = s] :
        v \in {<<{1}, 1>>, <<{1, 2}, 1>>, <<{1, 2}, 2>>},
        d \in {Documents[k] : k \in DOMAIN Documents},
        m \in SUBSET {Documents[k] : k \in DOMAIN Documents},
        s \in {{}, {"a.rs"}}}

\* The commands that write the current document, with a path, the flag, or both.
WriteLines ==
    {<<c>> \o join(ws) : c \in {"write", "write!", "write-quit", "write-quit!"},
                         ws \in BoundedSeq({<<"f">>, <<Dash, Dash, "no-format">>},
                                           MaxSubmitArgs)}

\* A modified document, with and without a formatter, auto-format on and off.
FormatEditors ==
    {[EditorAtRest EXCEPT !.modified = {"a.rs"}, !.auto_format = a, !.formatter = f] :
        a \in BOOLEAN, f \in BOOLEAN}

\* The commands that show or set an option, the theme or the language.
OptionLines ==
    {<<c>> \o join(ws) : c \in {"set-option", "theme", "set-language"},
                         ws \in BoundedSeq({<<"scrolloff">>, <<"2">>, <<"rust">>},
                                           MaxOptionArgs)}

SubmitLines == LiteralLines \cup NumberLines \cup OptionLines

InitSubmit ==
    /\ \/ input \in SubmitLines /\ editor = EditorAtRest
       \/ input \in QuitLines /\ editor \in ViewEditors
       \/ input \in WriteLines /\ editor \in FormatEditors
    /\ SignatureAtRest /\ RegistryAtRest /\ SlotAtRest
    /\ CallbackAtRest
    /\ CompletionAtRest /\ SessionAtRest

Deliver ==
    /\ event = None
    /\ \E ev \in PromptEvent, fails \in BOOLEAN : Callback(input, ev, fails)
    /\ UNCHANGED <<prompt, session>>

NextSubmit == Deliver

SpecSubmit == InitSubmit /\ [][NextSubmit]_vars

\* ------------------------------------------- specification: toggle-option
\* toggle_option called on its own on a key and the words after it, from every
\* value the option of that key can hold.
ToggleCommand ==
    TYPABLE_COMMAND_LIST[CHOOSE i \in DOMAIN TYPABLE_COMMAND_LIST :
                            TYPABLE_COMMAND_LIST[i].name = "toggle-option"]

ToggleText(key, ws) == IF ws = <<>> THEN <<key>> ELSE <<key>> \o join(ws)

WithOption(key, value) == [EditorAtRest EXCEPT !.config[key] = value]

StringCandidates == {<<"never">>, <<"always">>, <<"multiple">>, <<"bogus">>}

NumberCandidates == {<<"0">>, <<"2">>, <<"9">>, <<"2e0">>}

ListCandidates == {<<"[1]">>, <<"[2]">>, <<"[1.0]">>, <<"[]">>, <<"1">>, <<"x">>}

InitToggle ==
    /\ command = ToggleCommand
    /\ \/ /\ \E key \in {"bufferline", "BUFFERLINE"},
                ws \in BoundedSeq(StringCandidates, MaxToggleArgs) :
                input = ToggleText(key, ws)
          /\ \E v \in Variants : editor = WithOption("bufferline", Value("String", v))
       \/ /\ \E ws \in BoundedSeq(NumberCandidates, MaxToggleArgs) :
                input = ToggleText("scrolloff", ws)
          /\ \E v \in {<<"0">>, <<"2">>, <<"9">>} :
                editor = WithOption("scrolloff", Value("Number", v))
       \/ /\ \E ws \in BoundedSeq(ListCandidates, MaxToggleArgs) :
                input = ToggleText("rulers", ws)
          /\ \E v \in {<<>>, <<"1">>, <<"2">>} :
                editor = WithOption("rulers", Value("Array", v))
       \/ /\ \E key \in {"auto-format", "lsp", "nokey"},
                ws \in BoundedSeq({<<"true">>, <<"false">>}, MaxToggleArgs - 1) :
                input = ToggleText(key, ws)
          /\ \E v \in {<<"true">>, <<"false">>} :
                editor = WithOption("auto-format", Value("Bool", v))
       \/ input = <<>> /\ editor = EditorAtRest
    /\ count = 0 /\ verdict = None
    /\ RegistryAtRest /\ SlotAtRest /\ CallbackAtRest
    /\ CompletionAtRest /\ SessionAtRest

NextToggle == Invoke

SpecToggle == InitToggle /\ [][NextToggle]_vars

\* ------------------------------------------ specification: theme preview
\* Sessions of the prompt in which a theme is typed: the line changes between the
\* command alone, the command with a theme that loads (one of 16 colours, one that
\* needs true colour) or with a name that does not load, and nothing.
ThemeLines ==
    {<<>>, <<"theme">>, <<"theme", Space, "dark">>, <<"theme", Space, "base16">>,
     <<"theme", Space, "nosuch">>}

InitTheme ==
    /\ input = <<>>
    /\ SignatureAtRest /\ RegistryAtRest /\ SlotAtRest
    /\ CallbackAtRest
    /\ \E c \in BOOLEAN : editor = [EditorAtRest EXCEPT !.true_color = c]
    /\ CompletionAtRest /\ SessionAtRest

\* The line changes and the callback runs on the new line.
ThemeUpdate ==
    /\ prompt = "open"
    /\ \E line \in ThemeLines \ {input} : Callback(line, Update, FALSE)
    /\ prompt' = "open"
    /\ UNCHANGED session

NextTheme == GotoOpen \/ ThemeUpdate \/ GotoValidate \/ GotoAbort

SpecTheme == InitTheme /\ [][NextTheme]_vars

\* ================================================================ claims

\* ---- signature check (SpecSignature)
Min == command.signature.positionals[1]
Max == command.signature.positionals[2]
Checked == verdict # None
Accepted == verdict = Some(Ok)

\* C1: for a command declared (min, Some(max)) with max > min, ensure_signature(count)
\* returns Ok exactly when min <= count <= max.
C1_BetweenMinAndMax ==
    (Checked /\ Max # None /\ Max[1] > Min)
        => (Accepted <=> (Min <= count /\ count <= Max[1]))

\* C2: for a command declared (min, Some(max)) with min = max, (0, Some(0)) included,
\* ensure_signature(count) returns Ok if and only if count = min.
C2_ExactArity ==
    (Checked /\ Max = Some(Min)) => (Accepted <=> count = Min)

C2_Witness ==
    /\ Checked /\ Max = Some(Min) /\ Min > 0 /\ count = Min /\ Accepted

\* C3: for a command declared (min, None), ensure_signature(count) returns Ok if and
\* only if count >= min, for every count.
C3_UnboundedArity ==
    (Checked /\ Max = None) => (Accepted <=> count >= Min)

C3_Witness ==
    /\ Checked /\ Max = None /\ Min > 0 /\ count = Min /\ Accepted

\* ---- registry (SpecRegistry)
Keys(i) ==
    {TYPABLE_COMMAND_LIST[i].name}
        \cup {TYPABLE_COMMAND_LIST[i].aliases[j] : j \in DOMAIN TYPABLE_COMMAND_LIST[i].aliases}

\* C9: every name and every alias of the list is a key of the map and maps to a command
\* that has it as its name or an alias; no key is claimed by two commands, so no
\* insertion replaces an entry made before it.
C9_RegistryInvariant ==
    /\ \A j \in 1..cursor :
          /\ MapPairs[j][1] \in DOMAIN map
          /\ map[MapPairs[j][1]] = MapPairs[j][2]
    /\ cursor = Len(MapPairs) =>
          /\ map = TYPABLE_COMMAND_MAP
          /\ \A i \in DOMAIN TYPABLE_COMMAND_LIST : \A k \in Keys(i) :
                k \in DOMAIN map /\ k \in Keys(map[k])
    /\ \A i, j \in DOMAIN TYPABLE_COMMAND_LIST : i # j => Keys(i) \cap Keys(j) = {}

C9_Witness ==
    /\ cursor = Len(MapPairs)
    /\ "e" \in DOMAIN map
    /\ TYPABLE_COMMAND_LIST[map["e"]].name = "open"

\* ---- slot computation (SpecSlot)
Max0(n) == IF n > 0 THEN n ELSE 0

\* The argument words after the command token.
ArgumentWords(line) == Max0(Len(words_from(line, 1, <<>>, FALSE)) - 1)

SlotOf(line) == argument_number_of(Shellwords(line))

\* C10: argument_number_of returns n, the number of argument words after the command
\* token, when the line ends in whitespace, and max(0, n - 1) when it does not.
C10_ArgumentNumber ==
    /\ slot # None =>
          slot[1] = IF shellwords_ends_with_whitespace(Shellwords(input))
                    THEN ArgumentWords(input)
                    ELSE Max0(ArgumentWords(input) - 1)
    /\ SlotOf(<<"set-option">>) = 0
    /\ SlotOf(<<"set-option", " ">>) = 0
    /\ SlotOf(<<"set-option", " ", "asdf">>) = 0
    /\ SlotOf(<<"set-option", " ", "asdf", " ">>) = 1
    /\ SlotOf(<<"set-option", " ", "asdf", " ", "xyz">>) = 1
    /\ SlotOf(<<"set-option", " ", "asdf", " ", "xyz", " ", "abc">>) = 2
    /\ SlotOf(<<"set-option", " ", "asdf", " ", "xyz", " ", "abc", " ">>) = 3

C10_Witness ==
    /\ input = <<"w", " ", "w", " ", "w", " ">>
    /\ slot = Some(2)

\* ---- dispatch (Spec)
ArityErrors ==
    {"doesn't take any arguments", "needs min argument",
     "needs at least min arguments and at most max", "needs at least min argument"}

ErrorStatus(msg) == Some([severity |-> "error", message |-> msg])

IsArityError(status) == \E msg \in ArityErrors : status = ErrorStatus(msg)

\* The command a line resolves to in the map (None for an empty, numeric or unknown token).
Resolved(line) ==
    LET name == shellwords_command(Shellwords(line))
    IN  IF name = <<>> \/ parse_usize(name) # None THEN None
        ELSE IF map_get(TYPABLE_COMMAND_MAP, name) = None THEN None
        ELSE Some(TYPABLE_COMMAND_LIST[map_get(TYPABLE_COMMAND_MAP, name)[1]])

Parsed(line) ==
    ArgsFromSignature(shellwords_args(Shellwords(line)),
                      Resolved(line)[1].signature.parse_mode,
                      Resolved(line)[1].signature.flags)

\* C4: on Update and Abort the arity is not validated: the resolved handler is invoked
\* with the parsed arguments whatever their count, and no arity error is set.
C4_ArityOnlyOnValidate ==
    (event \in {Some(Update), Some(Abort)})
        => /\ (Resolved(input) # None /\ Parsed(input).ok)
                => /\ Len(invoked) = 1
                   /\ invoked[1].fun = Resolved(input)[1].fun
                   /\ invoked[1].args = Parsed(input).args
                   /\ invoked[1].event = event[1]
           /\ IsArityError(editor.status) => "status" \notin changed

C4_Witness ==
    /\ event = Some(Update)
    /\ input = <<"quit", " ", "dark">>
    /\ Len(invoked) = 1
    /\ invoked[1].fun = "quit"
    /\ args_len(invoked[1].args) = 1

\* C5: on Validate, when the arguments do not parse or ensure_signature rejects their
\* count, no handler is invoked and only the status text of the editor changes, to an error.
C5_RejectedBeforeHandler ==
    (/\ event = Some(Validate)
     /\ Resolved(input) # None
     /\ \/ ~Parsed(input).ok
        \/ ensure_signature(Resolved(input)[1], args_len(Parsed(input).args)) # Ok)
        => /\ invoked = <<>>
           /\ editor.status # None
           /\ editor.status[1].severity = "error"
           /\ changed \subseteq {"status"}

C5_Witness ==
    /\ event = Some(Validate)
    /\ input = <<"quit", " ", "dark">>
    /\ invoked = <<>>
    /\ changed = {"status"}
    /\ editor.status = ErrorStatus("doesn't take any arguments")

\* C6: during Update a failure to parse the arguments of the line sets no error status.
C6_ParseErrorSwallowedOnUpdate ==
    (/\ event = Some(Update)
     /\ Resolved(input) # None
     /\ ~Parsed(input).ok)
        => "status" \notin changed

\* C7 as stated: when a handler returns an error on Update or Abort, no error status is set.
C7_HandlerErrorOnlyOnValidate ==
    (/\ event \in {Some(Update), Some(Abort)}
     /\ invoked # <<>>
     /\ invoked[1].result # Ok)
        => "status" \notin changed

\* C7 amended: whenever a handler returns an error, on Update and Abort as on Validate,
\* the error status of the editor is set to the message of that error.
C7_HandlerErrorAlwaysReported ==
    (invoked # <<>> /\ invoked[1].result # Ok)
        => editor.status = ErrorStatus(invoked[1].result)

C7_Witness ==
    /\ event = Some(Update)
    /\ input = <<"theme", " ", "dark">>
    /\ invoked # <<>>
    /\ invoked[1].result = "Unsupported theme: theme requires true color support"
    /\ "status" \in changed
    /\ editor.status = ErrorStatus(invoked[1].result)

\* C8: on Validate a line whose command token is neither a decimal integer nor a key of
\* the map invokes no handler, reports "no such command" and changes nothing else.
C8_UnknownCommand ==
    (/\ event = Some(Validate)
     /\ shellwords_command(Shellwords(input)) # <<>>
     /\ parse_usize(shellwords_command(Shellwords(input))) = None
     /\ map_get(TYPABLE_COMMAND_MAP, shellwords_command(Shellwords(input))) = None)
        => /\ invoked = <<>>
           /\ editor.status = ErrorStatus("no such command")
           /\ changed \subseteq {"status"}

C8_Witness ==
    /\ event = Some(Validate)
    /\ input = <<"nosuchcommand", " ", "dark">>
    /\ invoked = <<>>
    /\ changed = {"status"}
    /\ editor.status = ErrorStatus("no such command")

\* ---- slot computation, line by line (SpecSlot)
\* The line ends in a complete argument word: a word after the command token that a
\* whitespace typed next would close.
EndsInArgumentWord(line) ==
    /\ ArgumentWords(line) >= 1
    /\ ~shellwords_ends_with_whitespace(Shellwords(line))
    /\ shellwords_ends_with_whitespace(Shellwords(Append(line, Space)))

\* C11: the slot index never decreases as the line grows, by one character or by a
\* further complete word, and it grows by exactly one when a whitespace is typed after
\* a complete argument word.
C11_SlotMonotone ==
    slot # None =>
        /\ \A a \in LineAtoms : SlotOf(Append(input, a)) >= slot[1]
        /\ SlotOf(input \o <<Space, "w">>) >= slot[1]
        /\ SlotOf(input \o <<Space, "w", Space>>) >= slot[1]
        /\ EndsInArgumentWord(input) => SlotOf(Append(input, Space)) = slot[1] + 1

C11_Witness ==
    /\ input = <<"w", " ", "w", " ", "w">>
    /\ slot = Some(1)
    /\ EndsInArgumentWord(input)
    /\ SlotOf(Append(input, Space)) = 2

\* ---- completion (SpecCompletion)
Completed == completion # None
Candidates == completion[1].candidates
Called == completion[1].called

WordsOf(line) == words_from(line, 1, <<>>, FALSE)

\* The command token is still being typed.
CommandBeingTyped(line) ==
    \/ shellwords_command(Shellwords(line)) = <<>>
    \/ Len(WordsOf(line)) = 1 /\ ~shellwords_ends_with_whitespace(Shellwords(line))

CanonicalNames == {TYPABLE_COMMAND_LIST[i].name : i \in DOMAIN TYPABLE_COMMAND_LIST}

Aliases ==
    UNION {{TYPABLE_COMMAND_LIST[i].aliases[j] : j \in DOMAIN TYPABLE_COMMAND_LIST[i].aliases} :
              i \in DOMAIN TYPABLE_COMMAND_LIST}

\* The canonical names the partial command token matches.
NamesMatching(token) ==
    IF token = <<>> THEN CanonicalNames
    ELSE IF Len(token) = 1 /\ token[1] \in DOMAIN FuzzyTable
    THEN FuzzyTable[token[1]] \cap CanonicalNames
    ELSE {}

\* C12: while the command token is still being typed, no completer is called; the
\* candidates are the canonical names the partial command token matches, none of them
\* an alias, and each replaces the line from offset 0.
C12_CommandNameCompletion ==
    (Completed /\ CommandBeingTyped(input)) =>
        /\ Called = None
        /\ {Candidates[k].content : k \in DOMAIN Candidates}
              = {<<n>> : n \in NamesMatching(shellwords_command(Shellwords(input)))}
        /\ \A k \in DOMAIN Candidates :
              /\ Candidates[k].start = 0
              /\ Candidates[k].content[1] \in CanonicalNames
              /\ Candidates[k].content[1] \notin Aliases

C12_Witness ==
    /\ Completed
    /\ input = <<"q">>
    /\ "q" \in FuzzyTable["q"] /\ "q" \in Aliases
    /\ \E k \in DOMAIN Candidates : Candidates[k] = [start |-> 0, content |-> <<"quit">>]

\* The command the command token of the line resolves to.
ResolvedCommand(line) ==
    TYPABLE_COMMAND_LIST[TYPABLE_COMMAND_MAP[shellwords_command(Shellwords(line))[1]]]

IsResolved(line) ==
    LET name == shellwords_command(Shellwords(line))
    IN  Len(name) = 1 /\ name[1] \in DOMAIN TYPABLE_COMMAND_MAP

\* The provider the claim names for slot k of a command.
ProviderFor(cmd, k) ==
    IF k + 1 \in DOMAIN cmd.signature.completer.positional_args
    THEN cmd.signature.completer.positional_args[k + 1]
    ELSE cmd.signature.completer.var_args

\* C13: past the command token of a resolved command, the completer called for slot k
\* is positional_args[k] when the per-position list has an entry k and var_args
\* otherwise, an empty per-position list included.
C13_ProviderForSlot ==
    /\ (Completed /\ ~CommandBeingTyped(input) /\ IsResolved(input)) =>
          /\ Called # None
          /\ Called[1].completer = ProviderFor(ResolvedCommand(input), SlotOf(input))
    /\ (Completed /\ Called # None) => IsResolved(input)

C13_Witness ==
    /\ Completed
    /\ input = <<"w", " ", "a", " ">>
    /\ ResolvedCommand(input).signature.completer.positional_args = <<"filename">>
    /\ SlotOf(input) = 1
    /\ Called # None /\ Called[1].completer = "none"

EndsWithWhitespace(line) == shellwords_ends_with_whitespace(Shellwords(line))

\* C14: when the line ends in whitespace, the completer is called with the empty
\* string as the partial word, not with the word completed before the whitespace.
C14_NewSlotGetsEmptyWord ==
    (Completed /\ Called # None /\ EndsWithWhitespace(input)) => Called[1].word = <<>>

\* Index of the atom the last word of s starts at; Len(s) + 1 when s ends in
\* unescaped whitespace or holds no word.
RECURSIVE last_word_start(_, _, _, _)
last_word_start(s, i, start, open) ==
    IF i > Len(s) THEN (IF open THEN start ELSE Len(s) + 1)
    ELSE IF s[i] = Escape /\ i < Len(s)
    THEN last_word_start(s, i + 2, IF open THEN start ELSE i, TRUE)
    ELSE IF s[i] = Space THEN last_word_start(s, i + 1, start, FALSE)
    ELSE last_word_start(s, i + 1, IF open THEN start ELSE i, TRUE)

\* The byte offset the current partial word starts at: the end of the line when the
\* line ends in whitespace, the start of the last word as typed otherwise.
PartialWordStart(line) == byte_len(SubSeq(line, 1, last_word_start(line, 1, 1, FALSE) - 1))

\* The partial word: empty when the line ends in whitespace, the last word otherwise.
PartialWord(line) ==
    IF EndsWithWhitespace(line) \/ WordsOf(line) = <<>> THEN <<>>
    ELSE WordsOf(line)[Len(WordsOf(line))]

\* C15: every range argument completion returns is the completer's range moved by the
\* byte offset the current partial word starts at in the line, for every line, those
\* ending in whitespace and those whose last word holds an escape included.
C15_RangeRemapped ==
    (Completed /\ Called # None) =>
        \A k \in DOMAIN Candidates :
            Candidates[k].start = Called[1].found[k].start + PartialWordStart(input)

\* The longest prefix of s of at most n bytes.
RECURSIVE take_bytes(_, _)
take_bytes(s, n) ==
    IF s = <<>> \/ Len(Head(s)) > n THEN <<>>
    ELSE <<Head(s)>> \o take_bytes(Tail(s), n - Len(Head(s)))

\* The line after the prompt has put a candidate in: the text from the start of the
\* candidate's range to the end of the line gives way to the candidate's content.
Substituted(line, candidate) == take_bytes(line, candidate.start) \o candidate.content

\* C16: a candidate put into the line at its range makes the line's last word the
\* value the completer returned, after the part of the partial word before the
\* completer's range.
C16_RoundTrip ==
    (Completed /\ Called # None) =>
        \A k \in DOMAIN Candidates :
            LET ws == WordsOf(Substituted(input, Candidates[k]))
            IN  /\ ws # <<>>
                /\ ws[Len(ws)] = take_bytes(PartialWord(input), Called[1].found[k].start)
                                    \o Called[1].found[k].content

\* ---- handlers called on their own (SpecHandlers)
Called1 == invoked[1]
HandlerCalled == event # None /\ invoked # <<>>

\* The fields of the editor that hold what is committed: the jumplist, the theme in
\* force, and whatever a handler saves, closes, edits or configures.
Durable ==
    {"jumps", "theme", "effect", "views", "focus", "doc", "modified", "saving",
     "written", "jobs", "exit_code", "language", "config"}

Previewing == {"theme", "goto_line_number"}

\* C17: a handler called with Update or Abort commits nothing durable, and every
\* handler other than theme and goto_line_number returns Ok and leaves the editor as
\* it was.
C17_OnlyValidateCommits ==
    (HandlerCalled /\ event[1] \in {Update, Abort}) =>
        /\ changed \cap Durable = {}
        /\ Called1.fun \notin Previewing => (Called1.result = Ok /\ changed = {})

C17_Witness ==
    /\ HandlerCalled
    /\ event = Some(Update)
    /\ command.name = "write"
    /\ Called1.result = Ok
    /\ changed = {}

\* C20: a handler called with Validate and a number of positionals its command's
\* ensure_signature accepts returns Ok or an error; it does not panic on a
\* positional that is not there.
C20_NoPanic ==
    (HandlerCalled /\ event[1] = Validate
        /\ ensure_signature(command, args_len(Called1.args)) = Ok)
        => Called1.result # Panic

\* ---- line-number preview (SpecGoto)
\* C18: when a session in which an Update previewed a line ends with Abort, the
\* selection is the one the session began with.
C18_AbortRestores ==
    (session # None /\ ~session[1].direct /\ session[1].previewed
        /\ prompt = "closed" /\ event = Some(Abort))
        => editor.selection = session[1].origin

\* The line a call of goto_line_number asks for, clamped to the document.
RequestedLine(invocation) ==
    LET n == parse_usize(invocation.args.positionals[1])[1]
    IN  IF n > NumLines THEN NumLines ELSE n

\* C19: goto_line_number called with Validate and no Update before it moves the cursor
\* to the line asked for, pushes the selection held just before the call onto the
\* jumplist and leaves last_selection None.
C19_DirectValidate ==
    (session # None /\ session[1].direct) =>
        /\ invoked[1].result = Ok
        /\ editor.selection = RequestedLine(invoked[1])
        /\ editor.jumps # <<>>
        /\ editor.jumps[Len(editor.jumps)] = session[1].origin
        /\ editor.last_selection = None

\* ---- one line, one event (SpecSubmit)
Delivered == event # None

ArgsText(line) == shellwords_args(Shellwords(line))

IsLiteral(line) ==
    Resolved(line) # None /\ Resolved(line)[1].signature.parse_mode = "Literal"

\* The text holds a word that opens with a dash.
HasDashWord(text) ==
    \E k \in DOMAIN WordsOf(text) : WordsOf(text)[k] # <<>> /\ WordsOf(text)[k][1] = Dash

\* C21: a line of a Literal command whose text holds a word opening with a dash sets
\* no parse error: the handler is called with the whole text, the dash word in it
\* as typed, as its one positional.
C21_LiteralKeepsDashes ==
    (Delivered /\ IsLiteral(input) /\ HasDashWord(ArgsText(input))) =>
        /\ Len(invoked) = 1
        /\ invoked[1].fun = Resolved(input)[1].fun
        /\ invoked[1].args.positionals = <<ArgsText(input)>>
        /\ invoked[1].args.flags = {}
        /\ editor.status # ErrorStatus("unknown flag")

C21_Witness ==
    /\ event = Some(Validate)
    /\ input = <<"pipe", " ", "-", "x", " ", "a">>
    /\ Len(invoked) = 1
    /\ invoked[1].fun = "pipe"
    /\ invoked[1].args.positionals = <<<<"-", "x", " ", "a">>>>
    /\ invoked[1].result = Ok

\* The command token of the line is a decimal integer.
IsNumberToken(line) ==
    /\ shellwords_command(Shellwords(line)) # <<>>
    /\ parse_usize(shellwords_command(Shellwords(line))) # None

\* C24: a line whose first word is a decimal integer and which holds further words is
\* not dispatched to goto_line_number.
C24_NumberAloneOnly ==
    (Delivered /\ IsNumberToken(input) /\ WordsOf(ArgsText(input)) # <<>>) =>
        \A k \in DOMAIN invoked : invoked[k].fun # "goto_line_number"

\* The line is delivered with Validate in this step.
Submits(line) == event = None /\ event' = Some(Validate) /\ input = line

\* C22 as stated: quit submitted with two views open and no document modified
\* returns Ok and closes the current view, the other one staying open.
C22_QuitClosesCurrentView ==
    [][(Submits(<<"quit">>) /\ Cardinality(editor.views) = 2 /\ editor.modified = {})
        => /\ invoked'[1].result = Ok
           /\ editor'.views = editor.views \ {editor.focus}]_vars

\* C22 amended: quit submitted with two views open and no document modified either
\* returns Ok and closes the current view, the other one staying open, or returns
\* the error of a write in flight and closes no view; with no write in flight it
\* returns Ok.
C22_QuitClosesCurrentViewOrReportsWrite ==
    [][(Submits(<<"quit">>) /\ Cardinality(editor.views) = 2 /\ editor.modified = {})
        => /\ Len(invoked') = 1 /\ invoked'[1].fun = "quit"
           /\ editor.saving = {} => invoked'[1].result = Ok
           /\ invoked'[1].result = Ok =>
                /\ editor'.views = editor.views \ {editor.focus}
                /\ Cardinality(editor'.views) = 1
                /\ editor'.focus \in editor'.views
           /\ invoked'[1].result # Ok =>
                /\ invoked'[1].result = "write error"
                /\ editor'.views = editor.views
                /\ editor'.status = ErrorStatus("write error")]_vars

C22_Witness ==
    /\ event = Some(Validate)
    /\ input = <<"quit">>
    /\ Len(invoked) = 1 /\ invoked[1].fun = "quit" /\ invoked[1].result = Ok
    /\ editor.views = {1} /\ editor.focus = 1
    /\ editor.modified = {}
    /\ "views" \in changed

\* C23: quit submitted with one view open and a document modified returns the
\* error that counts and names the modified documents, reports it, and closes no
\* view.
C23_QuitRefusedWhileUnsaved ==
    [][(Submits(<<"quit">>) /\ Cardinality(editor.views) = 1 /\ editor.modified # {})
        => /\ Len(invoked') = 1 /\ invoked'[1].fun = "quit"
           /\ invoked'[1].result = UnsavedMessage(modified_ids(editor))
           /\ editor'.status = ErrorStatus(UnsavedMessage(modified_ids(editor)))
           /\ editor'.views = editor.views
           /\ editor'.modified = editor.modified]_vars

C23_Witness ==
    /\ event = Some(Validate)
    /\ input = <<"quit">>
    /\ Len(invoked) = 1 /\ invoked[1].fun = "quit"
    /\ invoked[1].result = "1 unsaved buffer remaining: [\"b.rs\"]"
    /\ editor.views = {1}
    /\ editor.modified = {"b.rs"}
    /\ editor.status = ErrorStatus("1 unsaved buffer remaining: [\"b.rs\"]")

\* The line is one of the commands with the argument words after it.
IsLineOf(line, commands) ==
    /\ WordsOf(line) # <<>>
    /\ \E c \in commands : WordsOf(line)[1] = <<c>>

\* C28: cquit or cquit! submitted with an exit code that is not a number returns an
\* error, leaves editor.exit_code as it was and closes no view.
C28_BadExitCodeRefused ==
    (/\ event = Some(Validate)
     /\ IsLineOf(input, {"cquit", "cquit!"})
     /\ Len(WordsOf(input)) = 2
     /\ parse_i32(WordsOf(input)[2]) = None)
        => /\ invoked # <<>>
           /\ invoked[1].result # Ok
           /\ "exit_code" \notin changed
           /\ "views" \notin changed

\* C25: set-option submitted with a key and a value of several words reaches the
\* handler instead of being refused for its argument count.
C25_SetOptionTakesRestOfLine ==
    (/\ event = Some(Validate)
     /\ IsLineOf(input, {"set-option"})
     /\ Len(WordsOf(input)) >= 3)
        => /\ Len(invoked) = 1
           /\ invoked[1].fun = "set_option"
           /\ ~IsArityError(editor.status)

InfoStatus(msg) == Some([severity |-> "info", message |-> msg])

\* C30: theme and set-language submitted without an argument reach their handler,
\* which shows the current theme and the current language.
C30_ShowsCurrentWithoutArgument ==
    /\ (event = Some(Validate) /\ input = <<"theme">>)
        => /\ Len(invoked) = 1 /\ invoked[1].fun = "theme"
           /\ editor.status = InfoStatus(editor.theme)
    /\ (event = Some(Validate) /\ input = <<"set-language">>)
        => /\ Len(invoked) = 1 /\ invoked[1].fun = "language"
           /\ editor.status = InfoStatus(IF editor.language = None
                                         THEN DEFAULT_LANGUAGE_NAME
                                         ELSE editor.language[1])

\* The line carries the flag --no-format.
HasNoFormat(line) ==
    \E k \in DOMAIN WordsOf(line) : WordsOf(line)[k] = <<Dash, Dash, "no-format">>

\* C29: a write command submitted with --no-format queues no format job and saves
\* the document directly; submitted without the flag, with auto-format on and a
\* formatter for the document, it queues the format job.
C29_NoFormatSkipsFormatting ==
    (/\ event = Some(Validate)
     /\ IsLineOf(input, {"write", "write!", "write-quit", "write-quit!"})
     /\ Len(invoked) = 1)
        => /\ HasNoFormat(input) =>
                /\ editor.jobs = {}
                /\ invoked[1].result = Ok => editor.doc \in editor.saving \cup editor.written
           /\ (~HasNoFormat(input) /\ editor.auto_format /\ editor.formatter) =>
                editor.jobs = {editor.doc}

\* ---- toggle-option called on its own (SpecToggle)
\* toggle_option is called with Validate in this step, on the key and candidates.
Toggles(key) ==
    /\ event = None /\ event' = Some(Validate)
    /\ command.fun = "toggle_option"
    /\ WordsOf(input) # <<>>
    /\ to_lowercase(WordsOf(input)[1]) = <<key>>

\* The words after the key.
CandidatesOf(line) == Tail(WordsOf(line))

\* The candidate that follows the first occurrence of the current value; the first
\* candidate when the current value is the last one or is none of them.
Following(cands, current) ==
    LET at == {k \in DOMAIN cands : cands[k] = current}
        first == CHOOSE k \in at : \A j \in at : k <= j
    IN  IF at = {} THEN cands[1]
        ELSE IF first = Len(cands) THEN cands[1]
        ELSE cands[first + 1]

\* Every option but the one of the key is as it was.
OthersKept(key) ==
    \A k \in DOMAIN editor.config : k # key => editor'.config[k] = editor.config[k]

\* The step sets the option of the key to the value and returns Ok.
SetsOption(key, val) ==
    /\ invoked'[1].result = Ok
    /\ editor'.config[key].val = val
    /\ editor'.config[key].kind = editor.config[key].kind
    /\ OthersKept(key)

\* The step returns an error and leaves the configuration as it was.
RefusesToggle ==
    /\ invoked'[1].result \notin {Ok, Panic}
    /\ editor'.config = editor.config

\* C26: toggle-option on a string or a number option, given two candidates or more
\* after the key, sets the option to the candidate that follows the first
\* occurrence of its current value, and to the first candidate when the current
\* value is the last candidate or none of them; a candidate the option does not
\* accept is refused and the configuration stays as it was.  The key is no candidate.
C26_CyclesCandidates ==
    [][\A key \in {"bufferline", "scrolloff"} :
        (Toggles(key) /\ Len(CandidatesOf(input)) >= 2) =>
            LET next == Following(CandidatesOf(input), editor.config[key].val)
            IN  IF from_value_ok(Value(editor.config[key].kind, next))
                THEN SetsOption(key, next)
                ELSE RefusesToggle]_vars

C26_Witness ==
    /\ event = Some(Validate)
    /\ input = <<"scrolloff", " ", "2", " ", "9", " ", "0">>
    /\ invoked[1].fun = "toggle_option" /\ invoked[1].result = Ok
    /\ editor.config["scrolloff"] = Value("Number", <<"0">>)
    /\ changed = {"config", "status"}

\* The first two words after the key both read as JSON lists.
TwoLists(line) ==
    /\ Len(CandidatesOf(line)) >= 2
    /\ \A k \in 1..2 : /\ from_str(CandidatesOf(line)[k]) # None
                       /\ from_str(CandidatesOf(line)[k])[1].kind = "Array"

\* C27: toggle-option on an array option, given two lists, sets the option to the
\* second list when its current value equals the first and to the first list
\* otherwise; with fewer than two lists, with a value that is no list, or with a list
\* the option does not accept, it returns an error and the configuration stays as it
\* was.
C27_SwapsLists ==
    [][Toggles("rulers") =>
        IF TwoLists(input)
        THEN LET first == from_str(CandidatesOf(input)[1])[1]
                 second == from_str(CandidatesOf(input)[2])[1]
                 new == IF first.val = editor.config["rulers"].val THEN second ELSE first
             IN  IF from_value_ok(new) THEN SetsOption("rulers", new.val)
                 ELSE RefusesToggle
        ELSE RefusesToggle]_vars

C27_Witness ==
    /\ event = Some(Validate)
    /\ input = <<"rulers", " ", "[1]", " ", "[2]">>
    /\ invoked[1].fun = "toggle_option" /\ invoked[1].result = Ok
    /\ editor.config["rulers"] = Value("Array", <<"2">>)
    /\ changed = {"config", "status"}

\* ---- sessions of the line-number preview (SpecGoto)
\* C31: whenever the prompt is closed, before the first session and after the
\* Validate or Abort that ends one, editor.last_selection is None.
C31_NoSelectionKeptBetweenSessions ==
    prompt = "closed" => editor.last_selection = None

\* C32: an Update that leaves no number on the line puts the selection back to the
\* one the session began with and ends the preview.
C32_EmptyLineEndsPreview ==
    (/\ session # None /\ ~session[1].direct
     /\ prompt = "open" /\ event = Some(Update)
     /\ input = <<>>)
        => /\ editor.selection = session[1].origin
           /\ editor.last_selection = None

\* C33: the Validate that ends a session on a line number pushes the selection the
\* session began with, and a callback run with Update or Abort pushes nothing.
C33_PushesSelectionBeforePreview ==
    /\ (/\ session # None /\ ~session[1].direct
        /\ prompt = "closed" /\ event = Some(Validate)
        /\ invoked # <<>>
        /\ invoked[1].fun = "goto_line_number"
        /\ invoked[1].result = Ok)
          => /\ editor.jumps # <<>>
             /\ editor.jumps[Len(editor.jumps)] = session[1].origin
    /\ event \in {Some(Update), Some(Abort)} => "jumps" \notin changed

\* ---- sessions of the theme preview (SpecTheme)
\* theme was called with the event in the last run of the callback.
ThemeCalled(ev) == event = Some(ev) /\ invoked # <<>> /\ invoked[1].fun = "theme"

\* The theme the name given to the last call loads, if it loads.
ThemeNamed ==
    IF args_is_empty(invoked[1].args) THEN None
    ELSE theme_load(invoked[1].args.positionals[1])

\* The terminal can show the theme: it has true colour or the theme has 16 colours.
Supported(name) == editor.true_color \/ Themes[name]

\* An Update without argument and an Abort leave no preview; only Validate changes
\* the theme in force.
ClearsAndCommits ==
    /\ (ThemeCalled(Update) /\ args_is_empty(invoked[1].args)) => editor.theme_preview = None
    /\ ThemeCalled(Abort) => editor.theme_preview = None
    /\ "theme" \in changed => ThemeCalled(Validate)

SubmitsQuitAll == Submits(<<"quit-all">>) \/ Submits(<<"quit-all!">>)

Forced == input = <<"quit-all!">>

\* C35 as stated: without force and with a document modified, quit_all_impl returns
\* an error and closes no view; otherwise it closes every view.
C35_AllOrNothing ==
    [][SubmitsQuitAll =>
        IF ~Forced /\ editor.modified # {}
        THEN invoked'[1].result # Ok /\ editor'.views = editor.views
        ELSE invoked'[1].result = Ok /\ editor'.views = {}]_vars

\* C35 amended: quit_all_impl first waits for the writes in flight; if one of them
\* failed it returns that error and closes no view, with force as without.
\* Otherwise, without force and with a document still modified once the writes are
\* done, it returns the error naming the modified documents and closes no view; and
\* in every other case it closes every view.
C35_AllOrNothingAfterFlush ==
    [][SubmitsQuitAll =>
        LET left == SelectSeq(Documents, LAMBDA d : d \in editor.modified \ editor.saving)
        IN  /\ Len(invoked') = 1
            /\ invoked'[1].fun \in {"quit_all", "force_quit_all"}
            /\ editor.saving = {} => invoked'[1].result # "write error"
            /\ IF invoked'[1].result = "write error"
               THEN editor'.views = editor.views
               ELSE IF ~Forced /\ left # <<>>
               THEN /\ invoked'[1].result = UnsavedMessage(left)
                    /\ editor'.views = editor.views
               ELSE /\ invoked'[1].result = Ok
                    /\ editor'.views = {}]_vars

C35_Witness ==
    /\ event = Some(Validate)
    /\ input = <<"quit-all">>
    /\ invoked[1].fun = "quit_all"
    /\ invoked[1].result = "2 unsaved buffers remaining: [\"a.rs\", \"b.rs\"]"
    /\ editor.views = {1, 2}
    /\ editor.modified = {"a.rs", "b.rs"}

\* ---- lines that resolve to nothing (Spec)
\* The line holds no word: it is empty or whitespace only.
IsBlank(line) == WordsOf(line) = <<>>

\* The command token of the line is neither a number nor a key of the map.
IsUnknown(line) ==
    /\ ~IsBlank(line)
    /\ parse_usize(shellwords_command(Shellwords(line))) = None
    /\ map_get(TYPABLE_COMMAND_MAP, shellwords_command(Shellwords(line))) = None

Negated(val) == IF val = <<"true">> THEN <<"false">> ELSE <<"true">>

\* C37: toggle-option on a boolean option, given the key alone, sets the option to
\* the negation of its value; given any word after the key, or a key that names no
\* option, it returns an error and the configuration stays as it was.
C37_NegatesBoolean ==
    [][/\ Toggles("auto-format") =>
            IF CandidatesOf(input) = <<>>
            THEN SetsOption("auto-format", Negated(editor.config["auto-format"].val))
            ELSE RefusesToggle
       /\ Toggles("nokey") => RefusesToggle]_vars

C37_Witness ==
    /\ event = Some(Validate)
    /\ input = <<"auto-format">>
    /\ invoked[1].fun = "toggle_option" /\ invoked[1].result = Ok
    /\ editor.config["auto-format"] = Value("Bool", <<"false">>)
    /\ changed = {"config", "status"}
====
